---------------------------- MODULE Spec2Model ----------------------------
(***************************************************************************)
(* A model of the heos-rs client library.                                  *)
(*                                                                         *)
(*   Part I   the command/response channel (heos/src/channel.rs) together  *)
(*            with the connection's channel mutex (heos/src/lib.rs).       *)
(*   Part II  the stateful model (heos/src/state) and the event-draining   *)
(*            task of a Stateful connection (heos/src/lib.rs).             *)
(*   Part III the life cycle of a connection: from_channel and             *)
(*            init_stateful (heos/src/lib.rs).                             *)
(*   Part IV  the two event broadcasts and their subscribers               *)
(*            (heos/src/channel.rs, heos/src/lib.rs).                      *)
(*   Part V   the group table of the mock HEOS system (heos/src/mock.rs).  *)
(*   Part VI  the queue of a player of the mock HEOS system                *)
(*            (heos/src/mock.rs).                                          *)
(*   Part VII the bounded numbers Volume and VolumeStep (heos/src/data)    *)
(*            and the volume commands of the mock system.                  *)
(*   Part VIII the progress of a player's playing track                    *)
(*            (heos/src/state/player.rs).                                  *)
(*   Part IX  the iterator over playables of the stateful model            *)
(*            (heos/src/state/playable.rs).                                *)
(*   Part X   the reader task under a run of event frames                  *)
(*            (heos/src/channel.rs).                                       *)
(*   Part XI  raw commands and their textual form                          *)
(*            (heos/src/command/raw).                                      *)
(*   Part XII the subscribe-and-refresh helper of the front end            *)
(*            (heos-control/src/updater.rs).                               *)
(*   Part XIII an iterator over a table of the stateful model next to the  *)
(*            table's coarse refresh (heos/src/state/mod.rs).              *)
(*   Part XIV the volumes held in the stateful model under replies and     *)
(*            events (heos/src/state, heos/src/data).                      *)
(*   Part XV  the loop of Source::search (heos/src/state/source.rs).       *)
(***************************************************************************)
EXTENDS Integers, Sequences, FiniteSets, TLC

(***************************************************************************)
(* Bounds of the model.                                                    *)
(***************************************************************************)
\* number of tasks that call HeosConnection::raw_command concurrently
NumTasks == 2
\* number of commands sent on one channel (caps next_msg_id)
MaxSends == 2
\* number of event frames the device sends on one channel
MaxEventFrames == 1

\* number of event frames the event-draining task receives
MaxEvents == 2
\* number of times the device's set of players or groups changes
MaxDevChanges == 2
\* number of caller tasks that hold views on the stateful model
NumUsers == 1
\* number of commands issued through views
MaxCommands == 1

\* number of events the device sends during the life cycle of a connection
MaxLcEvents == 4

\* number of frames the reader receives while the broadcasts are observed
MaxBcFrames == 34
\* number of those frames that are replies to commands
MaxBcReplies == 1
\* Channel::EVENT_BROADCAST_BUFFER
EVENT_BROADCAST_BUFFER == 32

\* number of player ids in the pid argument of one set_group command
MaxPids == 3
\* number of players of the mock system
NumMockPlayers == 3

\* number of tracks a mock player's queue holds at most
MaxQueueLen == 3
\* number of queue ids in the argument of one queue command
MaxQids == 2

\* largest cur_pos and duration a progress event carries
MaxDuration == 3
\* instants the clock passes through
MaxClock == 4

\* number of player ids the players and groups tables draw from
NumPlayables == 4

\* number of event frames the reader is handed in a run
MaxReaderEvents == 2

\* number of characters of a parameter value
MaxValueLen == 2

\* number of entries registered with the updater
NumEntries == 2

\* refreshes check_queued launches for an entry between two events
MaxLaunches == 3

\* number of ids in the table under an iterator
NumIterIds == 2

\* views of one table a caller holds at a time
MaxViews == 2

\* largest count of a Search reply, and largest number of items of a page
MaxCount == 5
PageSize == 3

Tasks == 1 .. NumTasks
NoTask == 0
NoSeq == -1
\* command names ("group/name"): the key of ChannelState::response_caches
CmdNames == {"player/get_volume", "player/set_play_state"}
\* event paths a frame can carry; the last one is not a known event
EventNames == {"event/player_volume_changed", "event/bogus"}

VARIABLES
    \* ---- Part I: channel ----
    next_msg_id,      \* Channel::next_msg_id
    response_caches,  \* ChannelState::response_caches: name -> ResponseCache
    oneshot,          \* the oneshot channel (tx, rc) of every command sent
    slots,            \* the DelayedResponse behind every RawResponseFuture
    woken,            \* commands whose task waker has been woken
    event_broadcast,  \* events published on ChannelState::event_broadcast
    eventFrames,      \* number of event frames received so far
    mutex,            \* holder of the connection's AsyncMutex<Channel>
    pc,               \* per task: where it is in raw_command
    cur,              \* per task: msg_id of the command it is sending
    calls,            \* per command sent: name, stage, result
    device,           \* commands the device has received and not answered
    devAcked,         \* commands the device has acknowledged as delayed
    answered,         \* commands whose final reply has been received
    socket,           \* state of the TCP connection
    eofReads,         \* parity of the reads that returned no bytes
    \* ---- Part II: stateful model ----
    tables,           \* State::players / State::groups: id -> data
    devIds,           \* the players / groups the device has
    devData,          \* the volume and mute the device has for each of them
    devChanges,       \* number of changes of devIds so far
    event_recv,       \* events waiting in the event task's receiver
    emitted,          \* number of events the device has sent so far
    evPc,             \* where the event task is in its loop
    evCur,            \* the event the task is handling
    evInfos,          \* ids enumerated by the refresh in progress
    evBuild,          \* the map the refresh in progress has built so far
    evOk,             \* whether handle_event returned Ok
    user_broadcast,   \* events published on Stateful::event_broadcast
    views,            \* per user task: the view it holds (a read guard)
    commands,         \* number of commands issued through views so far
    evBefore,         \* the tables as they were when the task took its event
    \* ---- Part III: life cycle ----
    lcStep,           \* index of the next step of from_channel / init_stateful
    lcDone,           \* the steps that have completed
    lcFailed,         \* a command of the life cycle returned an error
    lcRegistered,     \* the device sends change events on this connection
    lcSubscribed,     \* the event task's receiver exists
    lcEmitted,        \* number of events the device has sent
    lcOnFrom,         \* lcEmitted when registration was turned on, or NoSeq
    lcQueue,          \* events waiting in the event task's receiver
    lcLost,           \* events published while there was no receiver
    lcHandled,        \* events the event task has taken
    \* ---- Part IV: broadcasts ----
    bcFrames,         \* number of frames the reader has received
    bcReplies,        \* number of reply frames among them
    bcMatched,        \* number of reply frames handed to their callers
    bcLog,            \* events published on ChannelState::event_broadcast
    ubLog,            \* events published on Stateful::event_broadcast
    bcNext,           \* per receiver: number of events it is past
    bcGot,            \* per receiver: the events recv() returned
    bcLagged,         \* per receiver: recv() has returned Lagged
    bcTask,           \* event task: "recv", "publish" or "dead"
    \* ---- Part V: mock groups ----
    mockGroups,       \* MockHeosSystem::groups: group id -> GroupSnapshot
    sgArgs,           \* the pid list of the last set_group command
    sgBefore,         \* the group table before that command
    sgReply,          \* the response to that command
    \* ---- Part VI: mock queue ----
    mqQueue,          \* PlayerSnapshot::queue: list of QueuedTrackInfo
    mqNow,            \* PlayerSnapshot::now_playing: its QueuedTrackInfo
    mqOp,             \* the last queue command and its arguments
    mqBefore,         \* the queue before that command
    mqNowBefore,      \* now_playing before that command
    mqReply,          \* "ok", "error", or "panic" if the handler panicked
    \* ---- Part VII: bounded numbers, mock volume ----
    bnOp,             \* the last constructor or arithmetic call on a number
    bnValue,          \* its result: Ok(value) or Err(kind, value)
    mvVolume,         \* snapshot.volume of the mock player and mock group
    mvOp,             \* the last set_volume / volume_up / volume_down
    mvGot,            \* what get_volume returned since that command, if any
    \* ---- Part VIII: now-playing progress ----
    clock,            \* Instant::now()
    npElapsed,        \* NowPlayingProgress::elapsed
    npDuration,       \* NowPlayingProgress::duration
    npBaseline,       \* NowPlayingProgress::baseline
    npPlayState,      \* PlayerData::play_state
    npLast,           \* the last event applied to the player, and when
    \* ---- Part IX: playables iterator ----
    plPhase,          \* "idle", "iterating", or "done" once next() gave None
    plPlayers,        \* the ids of the players table
    plGroups,         \* the groups table
    plGroupsLeft,     \* GroupsIter: the groups not popped yet
    plPlayersLeft,    \* PlayersIter: the player ids not popped yet
    plYielded,        \* PlayablesIter::yielded_player_ids
    plOut,            \* the playables next() has returned, in order
    \* ---- Part X: reader under event frames ----
    rdLog,            \* the event frames handed to handle_response, in order
    \* ---- Part XI: raw command text ----
    rcPhase,          \* "new", "raw", "text", "parsed"
    rcParams,         \* RawCommand::params, as a set of <<name, value>>
    rcText,           \* the text Display wrote
    rcParsed,         \* the parameters read back from the text
    \* ---- Part XII: subscribe-and-refresh helper ----
    udEntries,        \* Updater::entries, the registered entries
    udBind,           \* per entry: the state of its data slot, "none"
                      \* before it exists, "dropped" after its owner
                      \* let it go
    udQueued,         \* per entry: UpdateEntryTyped::queued
    udLaunched,       \* per entry: refreshes check_queued has launched
                      \* since the last event the entry's predicate
                      \* accepted
    udLast,           \* the last step of the helper
    \* ---- Part XIII: table iterator ----
    itPhase,          \* the iterator: "none", "alive", "panicked"
    itIds,            \* locked_data_iter::ids
    itViews,          \* views the iterator yielded that are still held
    itWriter,         \* the refresh: "idle", or "waiting" for the write guard
    itTable,          \* the ids in the table
    itLast,           \* the last step
    \* ---- Part XIV: volumes of the stateful model ----
    smVolume,         \* PlayerData::volume and GroupData::volume
    smLast,           \* the last reply or event and whether it parsed
    \* ---- Part XV: Source::search ----
    srPhase,          \* "idle", "loop", "returned", "failed"
    srLen,            \* all_items.len(), counted up to MaxCount
    srOptions,        \* options is not empty
    srLast            \* the last reply: its count and number of items

chanVars == <<next_msg_id, response_caches, oneshot, slots, woken,
              event_broadcast, eventFrames, mutex, pc, cur, calls, device,
              devAcked, answered, socket, eofReads>>

stateVars == <<tables, devIds, devData, devChanges, event_recv, emitted,
               evPc, evCur, evInfos, evBuild, evOk, user_broadcast, views,
               commands, evBefore>>

lifeVars == <<lcStep, lcDone, lcFailed, lcRegistered, lcSubscribed,
              lcEmitted, lcOnFrom, lcQueue, lcLost, lcHandled>>

\* the variables of the parts after Part II
bcastVars == <<bcFrames, bcReplies, bcMatched, bcLog, ubLog, bcNext, bcGot,
               bcLagged, bcTask>>

groupVars == <<mockGroups, sgArgs, sgBefore, sgReply>>

queueVars == <<mqQueue, mqNow, mqOp, mqBefore, mqNowBefore, mqReply>>

volumeVars == <<bnOp, bnValue, mvVolume, mvOp, mvGot>>

progressVars ==
    <<clock, npElapsed, npDuration, npBaseline, npPlayState, npLast>>

playablesVars ==
    <<plPhase, plPlayers, plGroups, plGroupsLeft, plPlayersLeft, plYielded,
      plOut>>

readerVars == <<rdLog>>

rawVars == <<rcPhase, rcParams, rcText, rcParsed>>

updaterVars == <<udEntries, udBind, udQueued, udLaunched, udLast>>

iterVars == <<itPhase, itIds, itViews, itWriter, itTable, itLast>>

modelVolumeVars == <<smVolume, smLast>>

searchVars == <<srPhase, srLen, srOptions, srLast>>

restVars == <<lifeVars, bcastVars, groupVars, queueVars, volumeVars, progressVars, playablesVars, readerVars, rawVars, updaterVars, iterVars, modelVolumeVars, searchVars>>

vars == <<chanVars, stateVars, restVars>>

(***************************************************************************)
(* Frames (RawResponse).  sequence is the SEQUENCE parameter of the        *)
(* message (NoSeq when the message carries none); origin is the msg_id of  *)
(* the command the device answers with the frame.                          *)
(***************************************************************************)
NoFrame == [kind |-> "none", command |-> "", sequence |-> NoSeq, origin |-> NoSeq]

FinalFrame(cmd, s, withSeq) ==
    [kind |-> "final", command |-> cmd,
     sequence |-> IF withSeq THEN s ELSE NoSeq, origin |-> s]

DelayFrame(cmd, s) ==
    [kind |-> "delay", command |-> cmd, sequence |-> s, origin |-> s]

EventFrame(name) ==
    [kind |-> "event", command |-> name, sequence |-> NoSeq, origin |-> NoSeq]

\* response.heos.message.starts_with("command under process")
IsDelayAck(f) == f.kind = "delay"

\* response.heos.command.starts_with("event/")
IsEventFrame(f) == f.kind = "event"

\* RawResponse::try_msg_id: the SEQUENCE of the message, if it has one
try_msg_id(f) == f.sequence

\* Event::try_from: only known event paths parse
EventParses(f) == f.command = "event/player_volume_changed"

\* ResponseCache::default()
EmptyCache == [present |-> FALSE, current |-> NoSeq, delayed |-> {},
               last_delayed |-> NoSeq]

\* RawResponseFuture::new(): no waker, no response
NewSlot == [response |-> NoFrame, waker |-> FALSE]

\* a fresh oneshot channel
NewOneshot == [st |-> "empty", val |-> NoFrame]

Sent == 0 .. (next_msg_id - 1)

\* the receiving half of a command's oneshot is alive while its caller is
\* between creating it and the end of rc.await
ReceiverAlive(s) == calls[s].stage \in {"write", "awaitRc"}

\* the most recently sent command of a name
MostRecent(cmd) ==
    LET ss == {s \in Sent : calls[s].command = cmd}
    IN  IF ss = {} THEN NoSeq ELSE CHOOSE s \in ss : \A q \in ss : q <= s

(***************************************************************************)
(* ChannelState::handle_response                                           *)
(***************************************************************************)
\* oneshot::Sender::send: the value is stored when the receiver is alive
OneshotSend(s, st, val) ==
    IF ReceiverAlive(s)
    THEN [oneshot EXCEPT ![s] = [st |-> st, val |-> val]]
    ELSE [oneshot EXCEPT ![s] = [st |-> "closed", val |-> NoFrame]]

\* store a response in a delayed slot and take (wake) its waker
StoreInSlot(s, f) == [slots EXCEPT ![s] = [response |-> f, waker |-> FALSE]]

\* WakeSlot as it would be if the stored waker were not woken
WakeSlot_Silent(s) == woken

WakeSlot(s) == IF slots[s].waker THEN woken \cup {s} ELSE woken

\* lines 162-168: a delay acknowledgement takes the immediate-reply sender
HandleDelay(f) ==
    LET cache == response_caches[f.command] IN
    /\ IF cache.present /\ cache.current # NoSeq
       THEN /\ response_caches' =
                  [response_caches EXCEPT ![f.command].current = NoSeq]
            /\ oneshot' = OneshotSend(cache.current, "none", NoFrame)
       ELSE UNCHANGED <<response_caches, oneshot>>
    /\ UNCHANGED <<slots, woken, event_broadcast>>

\* HandleEvent as it would be if a frame were published without parsing
HandleEvent_Unparsed(f) ==
    /\ event_broadcast' = Append(event_broadcast, f.command)
    /\ UNCHANGED <<response_caches, oneshot, slots, woken>>

\* lines 169-178: an event frame is parsed and published, or dropped
HandleEvent(f) ==
    /\ event_broadcast' = IF EventParses(f)
                          THEN Append(event_broadcast, f.command)
                          ELSE event_broadcast
    /\ UNCHANGED <<response_caches, oneshot, slots, woken>>

\* lines 188-191: the immediate-reply sender gets the final reply
DeliverImmediate(f) ==
    LET cache == response_caches[f.command] IN
    /\ response_caches' = [response_caches EXCEPT ![f.command].current = NoSeq]
    /\ oneshot' = OneshotSend(cache.current, "some", f)
    /\ UNCHANGED <<slots, woken>>

\* lines 201-213: a reply with SEQUENCE goes to the delayed slot of that id
DeliverBySequence(f) ==
    LET cache  == response_caches[f.command]
        msg_id == try_msg_id(f)
    IN  IF msg_id \in cache.delayed
        THEN /\ slots' = StoreInSlot(msg_id, f)
             /\ woken' = WakeSlot(msg_id)
             /\ response_caches' =
                  [response_caches EXCEPT
                     ![f.command].delayed = cache.delayed \ {msg_id},
                     ![f.command].last_delayed =
                         IF cache.last_delayed = msg_id THEN NoSeq
                         ELSE cache.last_delayed]
             /\ UNCHANGED oneshot
        ELSE UNCHANGED <<response_caches, oneshot, slots, woken>>

\* DeliverFallback as it would be if the slot stayed in the delayed map
DeliverFallback_KeepsSlot(f) ==
    LET cache == response_caches[f.command] IN
    IF cache.last_delayed # NoSeq
    THEN /\ slots' = StoreInSlot(cache.last_delayed, f)
         /\ woken' = WakeSlot(cache.last_delayed)
         /\ response_caches' =
              [response_caches EXCEPT ![f.command].last_delayed = NoSeq]
         /\ UNCHANGED oneshot
    ELSE UNCHANGED <<response_caches, oneshot, slots, woken>>

\* lines 214-223: a reply without SEQUENCE goes to the slot of last_delayed
DeliverFallback(f) ==
    LET cache == response_caches[f.command] IN
    IF cache.last_delayed # NoSeq
    THEN /\ slots' = StoreInSlot(cache.last_delayed, f)
         /\ woken' = WakeSlot(cache.last_delayed)
         /\ response_caches' =
              [response_caches EXCEPT
                 ![f.command].last_delayed = NoSeq,
                 ![f.command].delayed = cache.delayed \ {cache.last_delayed}]
         /\ UNCHANGED oneshot
    ELSE UNCHANGED <<response_caches, oneshot, slots, woken>>

\* lines 179-224: a final reply
HandleFinal(f) ==
    LET cache == response_caches[f.command] IN
    /\ IF ~cache.present
       THEN UNCHANGED <<response_caches, oneshot, slots, woken>>
       ELSE IF cache.current # NoSeq
       THEN DeliverImmediate(f)
       ELSE IF try_msg_id(f) # NoSeq
       THEN DeliverBySequence(f)
       ELSE DeliverFallback(f)
    /\ UNCHANGED event_broadcast

handle_response(f) ==
    IF IsDelayAck(f) THEN HandleDelay(f)
    ELSE IF IsEventFrame(f) THEN HandleEvent(f)
    ELSE HandleFinal(f)

(***************************************************************************)
(* HeosConnection::raw_command and Channel::send_raw_command               *)
(***************************************************************************)
\* a task calls raw_command and starts waiting for the channel mutex
Request(t) ==
    /\ pc[t] = "idle"
    /\ next_msg_id < MaxSends
    /\ pc' = [pc EXCEPT ![t] = "lock"]
    /\ UNCHANGED <<next_msg_id, response_caches, oneshot, slots, woken,
                   event_broadcast, eventFrames, mutex, cur, calls, device,
                   devAcked, answered, socket, eofReads>>
    /\ UNCHANGED <<stateVars, restVars>>

\* channel().lock().await succeeds; send_raw_command lines 375-389: allocate
\* the msg_id and register the command in the response cache of its name
Begin(t, cmd) ==
    /\ pc[t] = "lock"
    /\ mutex = NoTask
    /\ next_msg_id < MaxSends
    /\ LET msg_id == next_msg_id
           cache  == response_caches[cmd]
       IN  /\ next_msg_id' = next_msg_id + 1
           /\ mutex' = t
           /\ pc' = [pc EXCEPT ![t] = "busy"]
           /\ cur' = [cur EXCEPT ![t] = msg_id]
           /\ calls' = calls @@ (msg_id :>
                         [command |-> cmd, stage |-> "write",
                          delayed |-> FALSE, result |-> NoFrame])
           /\ slots' = slots @@ (msg_id :> NewSlot)
              \* replacing current drops the sender that was there
           /\ oneshot' =
                (IF cache.current # NoSeq
                 THEN [oneshot EXCEPT ![cache.current] =
                                        [st |-> "closed", val |-> NoFrame]]
                 ELSE oneshot) @@ (msg_id :> NewOneshot)
           /\ response_caches' =
                [response_caches EXCEPT ![cmd] =
                   [present |-> TRUE, current |-> msg_id,
                    delayed |-> cache.delayed \cup {msg_id},
                    last_delayed |-> msg_id]]
    /\ UNCHANGED <<woken, event_broadcast, eventFrames, device, devAcked, answered,
                   socket, eofReads>>
    /\ UNCHANGED <<stateVars, restVars>>

\* the future of raw_command ends (returns or is dropped): the mutex guard
\* goes with it
Leave(t) ==
    /\ mutex' = NoTask
    /\ pc' = [pc EXCEPT ![t] = "idle"]
    /\ cur' = [cur EXCEPT ![t] = NoSeq]

\* Write as it would be if the mutex guard were released after the write
Write_ReleasesGuard(t) ==
    /\ pc[t] = "busy"
    /\ calls[cur[t]].stage = "write"
    /\ socket = "open"
    /\ calls' = [calls EXCEPT ![cur[t]].stage = "awaitRc"]
    /\ device' = device \cup {cur[t]}
    /\ mutex' = NoTask
    /\ UNCHANGED <<next_msg_id, response_caches, oneshot, slots, woken,
                   event_broadcast, eventFrames, pc, cur, devAcked, answered,
                   socket, eofReads>>
    /\ UNCHANGED <<stateVars, restVars>>

\* line 392: backend.send(command) completes; the command is on the wire
Write(t) ==
    /\ pc[t] = "busy"
    /\ calls[cur[t]].stage = "write"
    /\ socket = "open"
    /\ calls' = [calls EXCEPT ![cur[t]].stage = "awaitRc"]
    /\ device' = device \cup {cur[t]}
    /\ UNCHANGED <<next_msg_id, response_caches, oneshot, slots, woken,
                   event_broadcast, eventFrames, mutex, pc, cur, devAcked, answered,
                   socket, eofReads>>
    /\ UNCHANGED <<stateVars, restVars>>

\* WriteFail as it would be if a failed write gave its msg_id back
WriteFail_ReusesId(t) ==
    /\ pc[t] = "busy"
    /\ calls[cur[t]].stage = "write"
    /\ socket = "closed"
    /\ calls' = [calls EXCEPT ![cur[t]].stage = "ioerror"]
    /\ next_msg_id' = next_msg_id - 1
    /\ Leave(t)
    /\ UNCHANGED <<response_caches, oneshot, slots, woken,
                   event_broadcast, eventFrames, device, devAcked, answered, socket, eofReads>>
    /\ UNCHANGED <<stateVars, restVars>>

\* line 392: backend.send(command) fails on the closed socket; `?` returns
\* the IO error
WriteFail(t) ==
    /\ pc[t] = "busy"
    /\ calls[cur[t]].stage = "write"
    /\ socket = "closed"
    /\ calls' = [calls EXCEPT ![cur[t]].stage = "ioerror"]
    /\ Leave(t)
    /\ UNCHANGED <<next_msg_id, response_caches, oneshot, slots, woken,
                   event_broadcast, eventFrames, device, devAcked, answered, socket, eofReads>>
    /\ UNCHANGED <<stateVars, restVars>>

\* lines 394-410: rc.await completes
RecvImmediate(t) ==
    LET s   == cur[t]
        cmd == calls[s].command
        cache == response_caches[cmd]
    IN
    /\ pc[t] = "busy"
    /\ calls[s].stage = "awaitRc"
    /\ oneshot[s].st # "empty"
    /\ CASE oneshot[s].st = "closed" ->
              \* the sender was dropped: BrokenPipe
              /\ calls' = [calls EXCEPT ![s].stage = "brokenpipe"]
              /\ Leave(t)
              /\ UNCHANGED <<response_caches, slots>>
         [] oneshot[s].st = "none" ->
              \* a delay acknowledgement: go on to await the delayed slot
              /\ calls' = [calls EXCEPT ![s].stage = "awaitFut",
                                        ![s].delayed = TRUE]
              /\ UNCHANGED <<response_caches, slots, mutex, pc, cur>>
         [] oneshot[s].st = "some" ->
              \* lines 397-410: the final reply; drop the delayed slot from
              \* the cache and return the reply through the future
              /\ response_caches' =
                   [response_caches EXCEPT
                      ![cmd].delayed = cache.delayed \ {s},
                      ![cmd].last_delayed =
                          IF cache.last_delayed = s THEN NoSeq
                          ELSE cache.last_delayed]
              /\ calls' = [calls EXCEPT ![s].stage = "returned",
                                        ![s].result = oneshot[s].val]
              /\ slots' = slots
              /\ Leave(t)
    /\ UNCHANGED <<next_msg_id, oneshot, woken, event_broadcast, eventFrames,
                   device, devAcked, answered, socket, eofReads>>
    /\ UNCHANGED <<stateVars, restVars>>

\* lines 58-70, 410: RawResponseFuture::poll, on the first poll and on every
\* poll after a wake
PollFuture(t) ==
    LET s == cur[t] IN
    /\ pc[t] = "busy"
    /\ \/ calls[s].stage = "awaitFut"
       \/ calls[s].stage = "pendingFut" /\ s \in woken
    /\ woken' = woken \ {s}
    /\ IF slots[s].response # NoFrame
       THEN /\ slots' = [slots EXCEPT ![s].response = NoFrame]
            /\ calls' = [calls EXCEPT ![s].stage = "returned",
                                      ![s].result = slots[s].response]
            /\ Leave(t)
       ELSE /\ slots' = [slots EXCEPT ![s].waker = TRUE]
            /\ calls' = [calls EXCEPT ![s].stage = "pendingFut"]
            /\ UNCHANGED <<mutex, pc, cur>>
    /\ UNCHANGED <<next_msg_id, response_caches, oneshot, event_broadcast,
                   eventFrames, device, devAcked, answered, socket, eofReads>>
    /\ UNCHANGED <<stateVars, restVars>>

\* the caller drops the future of raw_command at one of its await points
Cancel(t) ==
    /\ pc[t] = "busy"
    /\ calls[cur[t]].stage \in {"awaitRc", "awaitFut", "pendingFut"}
    /\ calls' = [calls EXCEPT ![cur[t]].stage = "cancelled"]
    /\ Leave(t)
    /\ UNCHANGED <<next_msg_id, response_caches, oneshot, slots, woken,
                   event_broadcast, eventFrames, device, devAcked, answered, socket, eofReads>>
    /\ UNCHANGED <<stateVars, restVars>>

(***************************************************************************)
(* The device and TcpChannel's reader task (lines 297-310): every frame    *)
(* read from the socket is handed to handle_response under the state lock. *)
(***************************************************************************)
\* the device acknowledges a command as "under process"
ReadDelay(s) ==
    /\ socket = "open"
    /\ s \in device \ devAcked
    /\ devAcked' = devAcked \cup {s}
    /\ handle_response(DelayFrame(calls[s].command, s))
    /\ UNCHANGED <<next_msg_id, eventFrames, mutex, pc, cur, calls, device,
                   answered, socket, eofReads>>
    /\ UNCHANGED <<stateVars, restVars>>

\* the device sends the final reply of a command, with or without SEQUENCE
ReadFinal(s, withSeq) ==
    /\ socket = "open"
    /\ s \in device
    /\ device' = device \ {s}
    /\ answered' = answered \cup {s}
    /\ handle_response(FinalFrame(calls[s].command, s, withSeq))
    /\ UNCHANGED <<next_msg_id, eventFrames, mutex, pc, cur, calls, devAcked,
                   socket, eofReads>>
    /\ UNCHANGED <<stateVars, restVars>>

\* the device sends an event frame
ReadEvent(name) ==
    /\ socket = "open"
    /\ eventFrames < MaxEventFrames
    /\ eventFrames' = eventFrames + 1
    /\ handle_response(EventFrame(name))
    /\ UNCHANGED <<next_msg_id, mutex, pc, cur, calls, device, devAcked, answered,
                   socket, eofReads>>
    /\ UNCHANGED <<stateVars, restVars>>

\* the peer closes the TCP connection
SocketClose ==
    /\ socket = "open"
    /\ socket' = "closed"
    /\ UNCHANGED eofReads
    /\ UNCHANGED <<next_msg_id, response_caches, oneshot, slots, woken,
                   event_broadcast, eventFrames, mutex, pc, cur, calls,
                   device, devAcked, answered>>
    /\ UNCHANGED <<stateVars, restVars>>

\* lines 256-275, 299-306: at end of stream read_until returns Ok(0), the
\* buffer never ends in CR LF, and read() loops without returning
ReadEof ==
    /\ socket = "closed"
    /\ eofReads' = 1 - eofReads
    /\ UNCHANGED <<next_msg_id, response_caches, oneshot, slots, woken,
                   event_broadcast, eventFrames, mutex, pc, cur, calls,
                   device, devAcked, answered, socket>>
    /\ UNCHANGED <<stateVars, restVars>>

ChanInit ==
    /\ next_msg_id = 0
    /\ response_caches = [c \in CmdNames |-> EmptyCache]
    /\ oneshot = <<>>
    /\ slots = <<>>
    /\ woken = {}
    /\ event_broadcast = <<>>
    /\ eventFrames = 0
    /\ mutex = NoTask
    /\ pc = [t \in Tasks |-> "idle"]
    /\ cur = [t \in Tasks |-> NoSeq]
    /\ calls = <<>>
    /\ device = {}
    /\ devAcked = {}
    /\ answered = {}
    /\ socket = "open"
    /\ eofReads = 0

CallerStep(t) ==
    \/ Write(t)
    \/ WriteFail(t)
    \/ RecvImmediate(t)
    \/ PollFuture(t)

ReaderStep ==
    \/ \E s \in Sent : ReadDelay(s)
    \/ \E s \in Sent, withSeq \in BOOLEAN : ReadFinal(s, withSeq)
    \/ \E name \in EventNames : ReadEvent(name)
    \/ ReadEof

ChanNext ==
    \/ \E t \in Tasks : Request(t)
    \/ \E t \in Tasks, cmd \in CmdNames : Begin(t, cmd)
    \/ \E t \in Tasks : CallerStep(t)
    \/ \E t \in Tasks : Cancel(t)
    \/ ReaderStep
    \/ SocketClose

(***************************************************************************)
(* Part II.  The stateful model.  The players table and the groups table   *)
(* have the same shape (update_sources, update_players and update_groups   *)
(* are the same code over three tables); an entry holds the fields the     *)
(* volume events write.  Commands are answered by the device in one step.  *)
(***************************************************************************)
Users == 1 .. NumUsers
TableNames == {"players", "groups"}
Ids == {1, 2}
Levels == {10, 20}
MuteStates == {"on", "off"}
NoView == [tbl |-> "", id |-> 0]

CoarseEvent(tbl) ==
    [type |-> "changed", tbl |-> tbl, id |-> 0, level |-> 0, mute |-> "off"]

VolumeEvent(tbl, id, level, mute) ==
    [type |-> "volume", tbl |-> tbl, id |-> id, level |-> level, mute |-> mute]

NoEvent == [type |-> "none", tbl |-> "", id |-> 0, level |-> 0, mute |-> "off"]

IsCoarse(e) == e.type = "changed"
IsFieldEvent(e) == e.type = "volume"

Events ==
    {CoarseEvent(tbl) : tbl \in TableNames} \cup
    {VolumeEvent(tbl, id, l, m) :
        tbl \in TableNames, id \in Ids, l \in Levels, m \in MuteStates}

\* PlayerData::get / GroupData::get: the data fetched from the device
FetchData(tbl, id) == devData[tbl][id]

\* number of read guards held on a table
Readers(tbl) == Cardinality({u \in Users : views[u].tbl = tbl})

\* the event task waits in table.write().await (a queued writer)
WriterWaiting(tbl) == evPc = "swap" /\ evCur.tbl = tbl

(***************************************************************************)
(* The event-draining task of init_stateful (lib.rs lines 337-355)         *)
(***************************************************************************)
\* event_recv.recv().await
EvRecv ==
    /\ evPc = "recv"
    /\ event_recv # <<>>
    /\ evCur' = Head(event_recv)
    /\ event_recv' = Tail(event_recv)
    /\ evPc' = "handle"
    /\ evOk' = TRUE
    /\ UNCHANGED <<tables, devIds, devData, devChanges, emitted, evInfos,
                   evBuild, user_broadcast, views>>
    /\ UNCHANGED commands
    /\ evBefore' = tables
    /\ UNCHANGED <<chanVars, restVars>>

\* ApplyFieldEvent as it would be if only the mute state were written
ApplyFieldEvent_MuteOnly(tbls, e) ==
    IF e.id \in DOMAIN tbls[e.tbl]
    THEN [tbls EXCEPT ![e.tbl][e.id].mute = e.mute]
    ELSE tbls

\* handle_event, PlayerVolumeChanged / GroupVolumeChanged (lines 307-328):
\* write level and mute of the entry, if the table has it
ApplyFieldEvent(tbls, e) ==
    IF e.id \in DOMAIN tbls[e.tbl]
    THEN [tbls EXCEPT ![e.tbl][e.id] = [volume |-> e.level, mute |-> e.mute]]
    ELSE tbls

EvHandleField ==
    /\ evPc = "handle"
    /\ IsFieldEvent(evCur)
    /\ tables' = ApplyFieldEvent(tables, evCur)
    /\ evPc' = "publish"
    /\ UNCHANGED <<devIds, devData, devChanges, event_recv, emitted, evCur,
                   evInfos, evBuild, evOk, user_broadcast, views>>
    /\ UNCHANGED <<commands, evBefore>>
    /\ UNCHANGED <<chanVars, restVars>>

\* update_players / update_groups, first command: enumerate the table
EvEnumerate ==
    /\ evPc = "handle"
    /\ IsCoarse(evCur)
    /\ evInfos' = devIds[evCur.tbl]
    /\ evBuild' = <<>>
    /\ evPc' = "build"
    /\ UNCHANGED <<tables, devIds, devData, devChanges, event_recv, emitted,
                   evCur, evOk, user_broadcast, views>>
    /\ UNCHANGED <<commands, evBefore>>
    /\ UNCHANGED <<chanVars, restVars>>

\* what one turn of the loop over the enumerated infos does to the table
\* being built and to the shared table
BuildInsert(build, id, data) == build @@ (id :> data)

\* TableDuringBuild as it would be if the loop wrote into the shared table
TableDuringBuild_InPlace(tbls, tbl, id, data) ==
    [tbls EXCEPT ![tbl] = [i \in (DOMAIN @) \cup {id} |->
                             IF i = id THEN data ELSE @[i]]]

TableDuringBuild(tbls, tbl, id, data) == tbls

\* the loop `for info in infos`: fetch one entry's data; a failing command
\* returns the error through `?` and the refresh ends
EvBuildOne(id) ==
    /\ evPc = "build"
    /\ id \in evInfos \ DOMAIN evBuild
    /\ IF id \in devIds[evCur.tbl]
       THEN /\ evBuild' = BuildInsert(evBuild, id, FetchData(evCur.tbl, id))
            /\ tables' = TableDuringBuild(tables, evCur.tbl, id,
                                          FetchData(evCur.tbl, id))
            /\ UNCHANGED <<evPc, evOk>>
       ELSE /\ evOk' = FALSE
            /\ evPc' = "publish"
            /\ UNCHANGED <<evBuild, tables>>
    /\ UNCHANGED <<devIds, devData, devChanges, event_recv, emitted, evCur,
                   evInfos, user_broadcast, views>>
    /\ UNCHANGED <<commands, evBefore>>
    /\ UNCHANGED <<chanVars, restVars>>

\* the loop is over: the task goes on to table.write().await
EvBuildDone ==
    /\ evPc = "build"
    /\ DOMAIN evBuild = evInfos
    /\ evPc' = "swap"
    /\ UNCHANGED <<tables, devIds, devData, devChanges, event_recv, emitted,
                   evCur, evInfos, evBuild, evOk, user_broadcast, views>>
    /\ UNCHANGED <<commands, evBefore>>
    /\ UNCHANGED <<chanVars, restVars>>

\* the write guard is granted once no read guard is left
WriteGranted(tbl) == Readers(tbl) = 0

\* `*self.players.write().await = players`
EvSwap ==
    /\ evPc = "swap"
    /\ WriteGranted(evCur.tbl)
    /\ tables' = [tables EXCEPT ![evCur.tbl] = evBuild]
    /\ evPc' = "publish"
    /\ UNCHANGED <<devIds, devData, devChanges, event_recv, emitted, evCur,
                   evInfos, evBuild, evOk, user_broadcast, views>>
    /\ UNCHANGED <<commands, evBefore>>
    /\ UNCHANGED <<chanVars, restVars>>

\* event_broadcast.send(event) on the user-visible broadcast
EvPublish ==
    /\ evPc = "publish"
    /\ user_broadcast' = Append(user_broadcast, evCur)
    /\ evPc' = "recv"
    /\ UNCHANGED <<tables, devIds, devData, devChanges, event_recv, emitted,
                   evCur, evInfos, evBuild, evOk, views>>
    /\ UNCHANGED <<commands, evBefore>>
    /\ UNCHANGED <<chanVars, restVars>>

EventTaskStep ==
    \/ EvRecv
    \/ EvHandleField
    \/ EvEnumerate
    \/ \E id \in Ids : EvBuildOne(id)
    \/ EvBuildDone
    \/ EvSwap
    \/ EvPublish

(***************************************************************************)
(* Callers of the stateful model: views and the commands issued through    *)
(* them (state/mod.rs lines 218-237, state/player.rs, state/group.rs)      *)
(***************************************************************************)
\* State::player / State::group: table.read().await, then a guard mapped to
\* the entry; the read waits behind a queued writer
AcquireView(u, tbl, id) ==
    /\ views[u] = NoView
    /\ ~WriterWaiting(tbl)
    /\ id \in DOMAIN tables[tbl]
    /\ views' = [views EXCEPT ![u] = [tbl |-> tbl, id |-> id]]
    /\ UNCHANGED <<tables, devIds, devData, devChanges, event_recv, emitted,
                   evPc, evCur, evInfos, evBuild, evOk, user_broadcast>>
    /\ UNCHANGED <<commands, evBefore>>
    /\ UNCHANGED <<chanVars, restVars>>

\* TablesAfterCommand as it would be if the view cached the value it set
TablesAfterCommand_Optimistic(tbls, tbl, id, value) ==
    IF value \in Levels
    THEN [tbls EXCEPT ![tbl][id].volume = value]
    ELSE [tbls EXCEPT ![tbl][id].mute = value]

\* what a command issued through a view does to the cached tables
TablesAfterCommand(tbls, tbl, id, value) == tbls

\* Player::set_volume / Group::set_volume: send the command; the device
\* takes the new level
ViewSetVolume(u, level) ==
    /\ views[u] # NoView
    /\ views[u].id \in devIds[views[u].tbl]
    /\ devData' = [devData EXCEPT ![views[u].tbl][views[u].id].volume = level]
    /\ tables' = TablesAfterCommand(tables, views[u].tbl, views[u].id, level)
    /\ UNCHANGED <<devIds, devChanges, event_recv, emitted, evPc, evCur,
                   evInfos, evBuild, evOk, user_broadcast, views>>
    /\ commands < MaxCommands
    /\ commands' = commands + 1
    /\ UNCHANGED evBefore
    /\ UNCHANGED <<chanVars, restVars>>

\* Player::set_mute / Group::set_mute: likewise for the mute state
ViewSetMute(u, m) ==
    /\ views[u] # NoView
    /\ views[u].id \in devIds[views[u].tbl]
    /\ devData' = [devData EXCEPT ![views[u].tbl][views[u].id].mute = m]
    /\ tables' = TablesAfterCommand(tables, views[u].tbl, views[u].id, m)
    /\ UNCHANGED <<devIds, devChanges, event_recv, emitted, evPc, evCur,
                   evInfos, evBuild, evOk, user_broadcast, views>>
    /\ commands < MaxCommands
    /\ commands' = commands + 1
    /\ UNCHANGED evBefore
    /\ UNCHANGED <<chanVars, restVars>>

\* the view is dropped: its read guard is released
DropView(u) ==
    /\ views[u] # NoView
    /\ views' = [views EXCEPT ![u] = NoView]
    /\ UNCHANGED <<tables, devIds, devData, devChanges, event_recv, emitted,
                   evPc, evCur, evInfos, evBuild, evOk, user_broadcast>>
    /\ UNCHANGED <<commands, evBefore>>
    /\ UNCHANGED <<chanVars, restVars>>

(***************************************************************************)
(* The device                                                              *)
(***************************************************************************)
\* an event frame arrives: handle_response publishes it on the channel
\* broadcast, where the event task's receiver queues it
DevEmit(e) ==
    /\ emitted < MaxEvents
    /\ emitted' = emitted + 1
    /\ event_recv' = Append(event_recv, e)
    /\ UNCHANGED <<tables, devIds, devData, devChanges, evPc, evCur,
                   evInfos, evBuild, evOk, user_broadcast, views>>
    /\ UNCHANGED <<commands, evBefore>>
    /\ UNCHANGED <<chanVars, restVars>>

\* a player or group appears on or disappears from the device
DevChange(tbl, id) ==
    /\ devChanges < MaxDevChanges
    /\ devChanges' = devChanges + 1
    /\ devIds' = [devIds EXCEPT ![tbl] =
                    IF id \in @ THEN @ \ {id} ELSE @ \cup {id}]
    /\ UNCHANGED <<tables, devData, event_recv, emitted, evPc, evCur,
                   evInfos, evBuild, evOk, user_broadcast, views>>
    /\ UNCHANGED <<commands, evBefore>>
    /\ UNCHANGED <<chanVars, restVars>>

StateInit ==
    /\ devIds = [tbl \in TableNames |-> {1}]
    /\ devData = [tbl \in TableNames |->
                    [id \in Ids |-> [volume |-> 10, mute |-> "off"]]]
    /\ tables = [tbl \in TableNames |->
                   [id \in {1} |-> [volume |-> 10, mute |-> "off"]]]
    /\ devChanges = 0
    /\ event_recv = <<>>
    /\ emitted = 0
    /\ evPc = "recv"
    /\ evCur = NoEvent
    /\ evInfos = {}
    /\ evBuild = <<>>
    /\ evOk = TRUE
    /\ user_broadcast = <<>>
    /\ views = [u \in Users |-> NoView]
    /\ commands = 0
    /\ evBefore = tables

StateNext ==
    \/ EventTaskStep
    \/ \E u \in Users, tbl \in TableNames, id \in Ids : AcquireView(u, tbl, id)
    \/ \E u \in Users, level \in Levels : ViewSetVolume(u, level)
    \/ \E u \in Users, m \in MuteStates : ViewSetMute(u, m)
    \/ \E u \in Users : DropView(u)
    \/ \E e \in Events : DevEmit(e)
    \/ \E tbl \in TableNames, id \in Ids : DevChange(tbl, id)


(***************************************************************************)
(* Part III.  The life cycle of a connection.  from_channel turns the      *)
(* device's change events off and returns an AdHoc connection;             *)
(* init_stateful initialises the State, subscribes the event task's        *)
(* receiver, spawns the task and turns change events on.  The device       *)
(* sends events on the connection only while they are turned on.           *)
(***************************************************************************)
\* the other parts' variables, which no step of the life cycle changes
exceptLife == <<chanVars, stateVars, bcastVars, groupVars, queueVars, volumeVars, progressVars, playablesVars, readerVars, rawVars, updaterVars, iterVars, modelVolumeVars, searchVars>>

\* InitSteps as it would be if change events were turned on before the
\* event task's receiver is subscribed
InitSteps_RegisterFirst ==
    <<"register_off", "account", "sources", "players", "groups",
      "register_on", "subscribe", "spawn">>

\* the steps of from_channel (lib.rs 314-316) and of init_stateful
\* (State::init, state/mod.rs 138-150; lib.rs 336, 337-355, 358-361)
InitSteps ==
    <<"register_off", "account", "sources", "players", "groups",
      "subscribe", "spawn", "register_on">>

\* the steps that send a command and return its error through `?`
CommandSteps ==
    {"register_off", "account", "sources", "players", "groups", "register_on"}

LcRunning == ~lcFailed /\ lcStep <= Len(InitSteps)

\* one step of from_channel / init_stateful completes
LcStep ==
    /\ LcRunning
    /\ LET step == InitSteps[lcStep] IN
       /\ lcStep' = lcStep + 1
       /\ lcDone' = lcDone \cup {step}
       /\ lcRegistered' = (IF step = "register_off" THEN FALSE
                           ELSE IF step = "register_on" THEN TRUE
                           ELSE lcRegistered)
       /\ lcOnFrom' = (IF step = "register_on" THEN lcEmitted ELSE lcOnFrom)
       /\ lcSubscribed' = (IF step = "subscribe" THEN TRUE ELSE lcSubscribed)
    /\ UNCHANGED <<lcFailed, lcEmitted, lcQueue, lcLost, lcHandled>>
    /\ UNCHANGED exceptLife

\* a command of the life cycle fails: `?` returns the error
LcFail ==
    /\ LcRunning
    /\ InitSteps[lcStep] \in CommandSteps
    /\ lcFailed' = TRUE
    /\ UNCHANGED <<lcStep, lcDone, lcRegistered, lcSubscribed, lcEmitted,
                   lcOnFrom, lcQueue, lcLost, lcHandled>>
    /\ UNCHANGED exceptLife

\* the device sends a change event; handle_response publishes it on the
\* channel broadcast (channel.rs 177), which keeps it only for the receivers
\* that exist
LcDevEmit ==
    /\ lcRegistered
    /\ lcEmitted < MaxLcEvents
    /\ lcEmitted' = lcEmitted + 1
    /\ IF lcSubscribed
       THEN /\ lcQueue' = Append(lcQueue, lcEmitted + 1)
            /\ UNCHANGED lcLost
       ELSE /\ lcLost' = lcLost \cup {lcEmitted + 1}
            /\ UNCHANGED lcQueue
    /\ UNCHANGED <<lcStep, lcDone, lcFailed, lcRegistered, lcSubscribed,
                   lcOnFrom, lcHandled>>
    /\ UNCHANGED exceptLife

\* the event task takes the next event from its receiver (lib.rs 339-342)
LcTaskRecv ==
    /\ "spawn" \in lcDone
    /\ lcQueue # <<>>
    /\ lcHandled' = Append(lcHandled, Head(lcQueue))
    /\ lcQueue' = Tail(lcQueue)
    /\ UNCHANGED <<lcStep, lcDone, lcFailed, lcRegistered, lcSubscribed,
                   lcEmitted, lcOnFrom, lcLost>>
    /\ UNCHANGED exceptLife

\* the device turns out not to send change events on the new connection
LcDeviceOff ==
    /\ lcRegistered
    /\ lcStep = 1
    /\ lcDone = {}
    /\ ~lcFailed
    /\ lcEmitted = 0
    /\ lcRegistered' = FALSE
    /\ UNCHANGED <<lcStep, lcDone, lcFailed, lcSubscribed, lcEmitted,
                   lcOnFrom, lcQueue, lcLost, lcHandled>>
    /\ UNCHANGED exceptLife

\* a new connection; whether the device sends events on it before
\* register_for_change_events is not known: it may, and LcDeviceOff is the
\* other case
LifeInit ==
    /\ lcStep = 1
    /\ lcDone = {}
    /\ lcFailed = FALSE
    /\ lcRegistered = TRUE
    /\ lcSubscribed = FALSE
    /\ lcEmitted = 0
    /\ lcOnFrom = NoSeq
    /\ lcQueue = <<>>
    /\ lcLost = {}
    /\ lcHandled = <<>>

LifeNext ==
    \/ LcStep
    \/ LcFail
    \/ LcDevEmit
    \/ LcTaskRecv
    \/ LcDeviceOff


(***************************************************************************)
(* Part IV.  The event broadcasts.  handle_response publishes every event  *)
(* on the channel broadcast; the event task of a Stateful connection is    *)
(* one of its receivers and publishes what it has handled on the           *)
(* user-visible broadcast.  Both are tokio broadcast channels of           *)
(* EVENT_BROADCAST_BUFFER slots: send never waits, a receiver that is      *)
(* more than that many events behind gets Lagged from recv() and goes on   *)
(* with the oldest event that is kept.                                     *)
(***************************************************************************)
exceptBcast == <<chanVars, stateVars, lifeVars, groupVars, queueVars, volumeVars, progressVars, playablesVars, readerVars, rawVars, updaterVars, iterVars, modelVolumeVars, searchVars>>

\* the receivers: one of subscribe_event_broadcast on the channel, the
\* event task, one of subscribe_event_broadcast on the Stateful connection
Receivers == {"channel", "task", "user"}

\* the broadcast a receiver is subscribed to
LogOf(r) == IF r = "user" THEN ubLog ELSE bcLog

\* CanPublish as it would be if send waited for the slowest receiver
CanPublish_Bounded(log, nexts) ==
    \A n \in nexts : Len(log) - n < EVENT_BROADCAST_BUFFER

\* BroadcastSender::send never waits for a receiver
CanPublish(log, nexts) == TRUE

\* Publish as it would be if a new event went in front of the kept ones
Publish_Front(log, e) == <<e>> \o log

\* BroadcastSender::send: the event goes behind the events published before
Publish(log, e) == Append(log, e)

\* the receiver is more than the buffer behind: its oldest events are gone
IsLagging(r) == Len(LogOf(r)) - bcNext[r] > EVENT_BROADCAST_BUFFER

\* the reader hands an event frame to handle_response (channel.rs 169-178)
BcReadEvent ==
    /\ bcFrames < MaxBcFrames
    /\ CanPublish(bcLog, {bcNext["channel"], bcNext["task"]})
    /\ bcFrames' = bcFrames + 1
    /\ bcLog' = Publish(bcLog, bcFrames + 1)
    /\ UNCHANGED <<bcReplies, bcMatched, ubLog, bcNext, bcGot, bcLagged,
                   bcTask>>
    /\ UNCHANGED exceptBcast

\* the reader hands a reply frame to handle_response (channel.rs 179-224)
BcReadReply ==
    /\ bcFrames < MaxBcFrames
    /\ bcReplies < MaxBcReplies
    /\ bcFrames' = bcFrames + 1
    /\ bcReplies' = bcReplies + 1
    /\ bcMatched' = bcMatched + 1
    /\ UNCHANGED <<bcLog, ubLog, bcNext, bcGot, bcLagged, bcTask>>
    /\ UNCHANGED exceptBcast

\* recv() of a receiver that a caller holds
BcRecv(r) ==
    /\ r \in {"channel", "user"}
    /\ bcNext[r] < Len(LogOf(r))
    /\ IF IsLagging(r)
       THEN /\ bcNext' = [bcNext EXCEPT
                            ![r] = Len(LogOf(r)) - EVENT_BROADCAST_BUFFER]
            /\ bcLagged' = [bcLagged EXCEPT ![r] = TRUE]
            /\ UNCHANGED bcGot
       ELSE /\ bcNext' = [bcNext EXCEPT ![r] = @ + 1]
            /\ bcGot' = [bcGot EXCEPT
                           ![r] = Append(@, LogOf(r)[bcNext[r] + 1])]
            /\ UNCHANGED bcLagged
    /\ UNCHANGED <<bcFrames, bcReplies, bcMatched, bcLog, ubLog, bcTask>>
    /\ UNCHANGED exceptBcast

\* the event task's event_recv.recv() (lib.rs 339-342): any error ends the
\* loop
BcTaskRecv ==
    /\ bcTask = "recv"
    /\ bcNext["task"] < Len(bcLog)
    /\ IF IsLagging("task")
       THEN /\ bcNext' = [bcNext EXCEPT
                            !["task"] = Len(bcLog) - EVENT_BROADCAST_BUFFER]
            /\ bcLagged' = [bcLagged EXCEPT !["task"] = TRUE]
            /\ bcTask' = "dead"
            /\ UNCHANGED bcGot
       ELSE /\ bcNext' = [bcNext EXCEPT !["task"] = @ + 1]
            /\ bcGot' = [bcGot EXCEPT
                           !["task"] = Append(@, bcLog[bcNext["task"] + 1])]
            /\ bcTask' = "publish"
            /\ UNCHANGED bcLagged
    /\ UNCHANGED <<bcFrames, bcReplies, bcMatched, bcLog, ubLog>>
    /\ UNCHANGED exceptBcast

\* the event task has handled the event and publishes it (lib.rs 344-353)
BcTaskPublish ==
    /\ bcTask = "publish"
    /\ CanPublish(ubLog, {bcNext["user"]})
    /\ ubLog' = Publish(ubLog, bcGot["task"][Len(bcGot["task"])])
    /\ bcTask' = "recv"
    /\ UNCHANGED <<bcFrames, bcReplies, bcMatched, bcLog, bcNext, bcGot,
                   bcLagged>>
    /\ UNCHANGED exceptBcast

BcastInit ==
    /\ bcFrames = 0
    /\ bcReplies = 0
    /\ bcMatched = 0
    /\ bcLog = <<>>
    /\ ubLog = <<>>
    /\ bcNext = [r \in Receivers |-> 0]
    /\ bcGot = [r \in Receivers |-> <<>>]
    /\ bcLagged = [r \in Receivers |-> FALSE]
    /\ bcTask = "recv"

\* the reader and a receiver of the channel broadcast
BcastNext ==
    \/ BcReadEvent
    \/ BcReadReply
    \/ BcRecv("channel")

\* the reader, the event task and the receivers of both broadcasts
EventsNext ==
    \/ BcReadEvent
    \/ \E r \in {"channel", "user"} : BcRecv(r)
    \/ BcTaskRecv
    \/ BcTaskPublish


(***************************************************************************)
(* Part V.  The group table of the mock system and group/set_group         *)
(* (mock.rs 1257-1337).  A group is its leader_id and its list of          *)
(* GroupPlayer entries (player id and role); its name is the names of      *)
(* those entries joined, and stands here as the entries themselves.        *)
(***************************************************************************)
exceptGroups == <<chanVars, stateVars, lifeVars, bcastVars, queueVars, volumeVars, progressVars, playablesVars, readerVars, rawVars, updaterVars, iterVars, modelVolumeVars, searchVars>>

\* the players of the mock system, and the ids a command can name (the
\* last one is no player)
MockPlayers == 1 .. NumMockPlayers
PidArgs == 1 .. (NumMockPlayers + 1)

\* the pid argument: a list of one or more ids
PidLists == UNION {[1 .. n -> PidArgs] : n \in 1 .. MaxPids}

\* invalid_id_error: eid=2
InvalidIdEid == 2

GroupPlayer(pid, role) == [player_id |-> pid, role |-> role]

\* GroupPlayers as it would be if the other players were given the role
\* Leader too
GroupPlayers_AllLeaders(leader, members) ==
    {GroupPlayer(leader, "leader")}
        \cup {GroupPlayer(m, "leader") : m \in members}

\* lines 1285-1306: the leader with role Leader, then every other id of the
\* list (a HashSet of player_ids[1..]) with role Member
GroupPlayers(leader, members) ==
    {GroupPlayer(leader, "leader")}
        \cup {GroupPlayer(m, "member") : m \in members}

\* MockGroup::new (367-384): leader_id is the id of an entry with role Leader
NewGroup(players) ==
    [leader_id |-> (CHOOSE p \in players : p.role = "leader").player_id,
     players |-> players]

\* lines 1264-1269: the id of a group whose leader_id is the first id
GroupLedBy(groups, leader) ==
    {g \in DOMAIN groups : groups[g].leader_id = leader}

\* ModifiedGroup as it would be if the new entries were added to the old ones
ModifiedGroup_Union(group, players) ==
    [group EXCEPT !.players = @ \cup players]

\* lines 1314-1318: the list of entries of an existing group is replaced
ModifiedGroup(group, players) == [group EXCEPT !.players = players]

\* RemoveGroup as it would be if every group were deleted
RemoveGroup_All(groups, gid) ==
    [g \in {} |-> groups[g]]

\* line 1274: system.groups.remove(&group_id)
RemoveGroup(groups, gid) ==
    [g \in (DOMAIN groups) \ {gid} |-> groups[g]]

SgOk(gid, name) == [ok |-> TRUE, eid |-> 0, gid |-> gid, name |-> name]
SgError(eid) == [ok |-> FALSE, eid |-> eid, gid |-> 0, name |-> {}]

\* group/set_group with the pid list pids
MockSetGroup(pids) ==
    LET leader  == pids[1]
        led     == GroupLedBy(mockGroups, leader)
        members == {pids[i] : i \in 2 .. Len(pids)}
        players == GroupPlayers(leader, members)
    IN
    /\ sgArgs' = pids
    /\ sgBefore' = mockGroups
    /\ IF Len(pids) = 1
       THEN IF led # {}
            THEN \E gid \in led :
                    /\ mockGroups' = RemoveGroup(mockGroups, gid)
                    /\ sgReply' = SgOk(0, {})
            ELSE /\ sgReply' = SgError(InvalidIdEid)
                 /\ UNCHANGED mockGroups
       ELSE IF ~({leader} \cup members \subseteq MockPlayers)
            THEN /\ sgReply' = SgError(InvalidIdEid)
                 /\ UNCHANGED mockGroups
            ELSE IF led # {}
                 THEN \E gid \in led :
                         /\ mockGroups' =
                               [mockGroups EXCEPT
                                  ![gid] = ModifiedGroup(@, players)]
                         /\ sgReply' = SgOk(gid, players)
                 ELSE /\ mockGroups' =
                            [g \in (DOMAIN mockGroups) \cup {leader} |->
                               IF g = leader THEN NewGroup(players)
                               ELSE mockGroups[g]]
                      /\ sgReply' = SgOk(leader, players)
    /\ UNCHANGED exceptGroups

\* MockHeosSystem::default has no group
GroupsInit ==
    /\ mockGroups = <<>>
    /\ sgArgs = <<>>
    /\ sgBefore = <<>>
    /\ sgReply = SgOk(0, {})

GroupsNext == \E pids \in PidLists : MockSetGroup(pids)


(***************************************************************************)
(* Part VI.  The queue of one player of the mock system and the commands   *)
(* that change it (mock.rs 1119-1204, 1398-1439).  A QueuedTrackInfo is    *)
(* its media_id and its queue_id.                                          *)
(***************************************************************************)
exceptQueue == <<chanVars, stateVars, lifeVars, bcastVars, groupVars, volumeVars, progressVars, playablesVars, readerVars, rawVars, updaterVars, iterVars, modelVolumeVars, searchVars>>

Entry(m, q) == [media |-> m, queue_id |-> q]

\* the tracks of the source's catalogue, and the queue_id their
\* QueuedTrackInfo carries there
Catalogue == {"a"}
CatalogueQueueId == 9

\* the queue ids a command can name
QidArgs == 0 .. MaxQueueLen

\* qid / sqid arguments: lists of one or more queue ids
QidLists == UNION {[1 .. n -> QidArgs] : n \in 1 .. MaxQids}

\* sqid arguments: the ids of a set, written in rising order
SrcLists ==
    {ids \in QidLists : \A i \in 1 .. Len(ids) - 1 : ids[i] < ids[i + 1]}

AddTypes == {"PlayNow", "PlayNext", "AddToEnd", "ReplaceAndPlay"}

\* a queue as a test populates it (doctest.rs 103-140): ids from 1
PresetQueue == [i \in 1 .. MaxQueueLen |-> Entry(<<"q", i>>, i)]

\* adjust_queue_ids (333-343), the queue: the id of a track is its index
AdjustQueue(queue) ==
    [i \in 1 .. Len(queue) |-> [queue[i] EXCEPT !.queue_id = i - 1]]

\* adjust_queue_ids, the now-playing slot
AdjustNow(now) == [now EXCEPT !.queue_id = 0]

\* Vec::remove(idx), idx counted from 0
RemoveAt(queue, idx) ==
    SubSeq(queue, 1, idx) \o SubSeq(queue, idx + 2, Len(queue))

\* the ids of a list, largest first (sort_by_cached_key, then rev)
RECURSIVE SortedDesc(_)
SortedDesc(ids) ==
    IF ids = <<>> THEN <<>>
    ELSE LET m == CHOOSE i \in 1 .. Len(ids) :
                     \A j \in 1 .. Len(ids) : ids[j] <= ids[i]
         IN  <<ids[m]>> \o SortedDesc(SubSeq(ids, 1, m - 1)
                                       \o SubSeq(ids, m + 1, Len(ids)))

\* remove_from_queue, the loop (1134-1141): an id past the end returns the
\* error and leaves what was removed before removed
RECURSIVE RemoveLoop(_, _)
RemoveLoop(queue, ids) ==
    IF ids = <<>> THEN [queue |-> queue, reply |-> "ok"]
    ELSE IF Head(ids) < Len(queue)
         THEN RemoveLoop(AdjustQueue(RemoveAt(queue, Head(ids))), Tail(ids))
         ELSE [queue |-> queue, reply |-> "error"]

\* move_queue_item, the loop (1173-1186) from item i on
RECURSIVE MoveLoop(_, _, _, _, _)
MoveLoop(old, i, src, dst, acc) ==
    IF i > Len(old) THEN acc
    ELSE LET item == old[i]
             past == acc.past_mid \/ item.queue_id = dst
         IN  MoveLoop(old, i + 1, src, dst,
                IF item.queue_id \in src
                THEN [acc EXCEPT !.past_mid = past, !.mid = Append(@, item)]
                ELSE IF past
                THEN [acc EXCEPT !.past_mid = past, !.post = Append(@, item)]
                ELSE [acc EXCEPT !.past_mid = past, !.pre = Append(@, item)])

\* MoveResult as it would be if the moved tracks were put at the end
MoveResult_MidLast(parts) == parts.pre \o parts.post \o parts.mid

\* lines 1187-1189: the queue is pre, then mid, then post
MoveResult(parts) == parts.pre \o parts.mid \o parts.post

\* InsertNext as it would be if the track went behind the first one
InsertNext_Second(queue, e) ==
    IF queue = <<>> THEN <<e>>
    ELSE <<Head(queue), e>> \o Tail(queue)

\* line 1420: queue.insert(0, track)
InsertNext(queue, e) == <<e>> \o queue

QueueOp(name, ids, dst, track) ==
    [name |-> name, ids |-> ids, dst |-> dst, track |-> track]

\* what every queue command leaves in the history variables
Recorded(op) ==
    /\ mqOp' = op
    /\ mqBefore' = mqQueue
    /\ mqNowBefore' = mqNow
    /\ UNCHANGED exceptQueue

\* player/play_queue (1119-1129)
PlayQueue(qid) ==
    /\ Recorded(QueueOp("play_queue", <<qid>>, 0, ""))
    /\ IF qid < Len(mqQueue)
       THEN /\ mqQueue' = AdjustQueue(SubSeq(mqQueue, qid + 1, Len(mqQueue)))
            /\ mqNow' = AdjustNow(mqNow)
            /\ mqReply' = "ok"
       ELSE /\ mqReply' = "error"
            /\ UNCHANGED <<mqQueue, mqNow>>

\* player/remove_from_queue (1130-1143)
RemoveFromQueue(ids) ==
    /\ Recorded(QueueOp("remove_from_queue", ids, 0, ""))
    /\ LET r == RemoveLoop(mqQueue, SortedDesc(ids)) IN
       /\ mqQueue' = r.queue
       /\ mqReply' = r.reply
       /\ mqNow' = (IF r.queue # mqQueue THEN AdjustNow(mqNow) ELSE mqNow)

\* player/clear_queue (1155-1159)
ClearQueue ==
    /\ Recorded(QueueOp("clear_queue", <<>>, 0, ""))
    /\ mqQueue' = <<>>
    /\ mqReply' = "ok"
    /\ UNCHANGED mqNow

\* player/move_queue_item (1160-1193): the queue is swapped out first;
\* Vec::with_capacity(len - dst) panics when dst is larger than the length
MoveQueueItem(ids, dst) ==
    /\ Recorded(QueueOp("move_queue_item", ids, dst, ""))
    /\ IF dst > Len(mqQueue)
       THEN /\ mqQueue' = <<>>
            /\ mqReply' = "panic"
            /\ UNCHANGED mqNow
       ELSE /\ mqQueue' =
                 AdjustQueue(MoveResult(
                    MoveLoop(mqQueue, 1, {ids[i] : i \in 1 .. Len(ids)}, dst,
                             [past_mid |-> FALSE, pre |-> <<>>,
                              mid |-> <<>>, post |-> <<>>])))
            /\ mqNow' = AdjustNow(mqNow)
            /\ mqReply' = "ok"

\* player/play_next (1194-1205): queue.remove(0) panics on an empty queue
PlayNext ==
    /\ Recorded(QueueOp("play_next", <<>>, 0, ""))
    /\ IF mqQueue = <<>>
       THEN /\ mqReply' = "panic"
            /\ UNCHANGED <<mqQueue, mqNow>>
       ELSE /\ mqNow' = AdjustNow(Head(mqQueue))
            /\ mqQueue' = AdjustQueue(Tail(mqQueue))
            /\ mqReply' = "ok"

\* browse/add_to_queue (1398-1439) with a track of the catalogue
AddToQueue(aid, track) ==
    /\ aid \in {"PlayNow", "ReplaceAndPlay"} \/ Len(mqQueue) < MaxQueueLen
    /\ Recorded(QueueOp("add_to_queue", <<>>, 0, <<aid, track>>))
    /\ LET e == Entry(track, CatalogueQueueId) IN
       /\ mqNow' = AdjustNow(IF aid \in {"PlayNow", "ReplaceAndPlay"}
                             THEN e ELSE mqNow)
       /\ mqQueue' = AdjustQueue(
             CASE aid = "PlayNow" -> mqQueue
               [] aid = "PlayNext" -> InsertNext(mqQueue, e)
               [] aid = "AddToEnd" -> Append(mqQueue, e)
               [] aid = "ReplaceAndPlay" -> <<>>)
    /\ mqReply' = "ok"

\* MockPlayer::new (274-331): an empty queue, or one a test has populated
\* a test fills the queue of the new player before it sends commands
\* (doctest.rs 103-140)
QueuePreset ==
    /\ mqOp.name = "none"
    /\ mqQueue = <<>>
    /\ mqQueue' = PresetQueue
    /\ mqBefore' = PresetQueue
    /\ UNCHANGED <<mqNow, mqOp, mqNowBefore, mqReply>>
    /\ UNCHANGED exceptQueue

QueueInit ==
    /\ mqQueue = <<>>
    /\ mqNow = Entry("", 0)
    /\ mqOp = QueueOp("none", <<>>, 0, "")
    /\ mqBefore = mqQueue
    /\ mqNowBefore = mqNow
    /\ mqReply = "ok"

QueueNext ==
    \/ \E qid \in QidArgs : PlayQueue(qid)
    \/ \E ids \in QidLists : RemoveFromQueue(ids)
    \/ ClearQueue
    \/ \E ids \in SrcLists, dst \in QidArgs : MoveQueueItem(ids, dst)
    \/ PlayNext
    \/ \E aid \in AddTypes, track \in Catalogue : AddToQueue(aid, track)
    \/ QueuePreset


(***************************************************************************)
(* Part VII.  The bounded numbers Volume and VolumeStep (data/mod.rs       *)
(* 84-176, data/common.rs 9-29) and the volume commands of the mock        *)
(* system (mock.rs 1046-1066, 1338-1358).  Both wrap a u16.                *)
(***************************************************************************)
exceptVolume == <<chanVars, stateVars, lifeVars, bcastVars, groupVars, queueVars, progressVars, playablesVars, readerVars, rawVars, updaterVars, iterVars, modelVolumeVars, searchVars>>

U16Max == 65535
VolumeMax == 100
VolumeStepMax == 10
VolumeStepDefault == 5

BoundedTypes == {"Volume", "VolumeStep"}

\* $max of a bounded type; $min is 0 for both
MaxOf(type) == IF type = "Volume" THEN VolumeMax ELSE VolumeStepMax

\* the u16 values the model hands to constructors and to the arithmetic
NumArgs == {0, 1, 5, 10, 11, 95, 100, 101, U16Max}

\* strings a command or a response can carry where a number is expected,
\* each the decimal text of an integer: u16's parse rejects "-1" and "65536"
StrArgs == NumArgs \cup {-1, U16Max + 1}

\* the level argument of set_volume
LevelArgs == {-1, 0, 3, 50, 97, 100, 101}

Ok(value) == [ok |-> TRUE, value |-> value]
Err(kind, value) == [ok |-> FALSE, kind |-> kind, value |-> value]

\* $type_name::new (118-131), also TryFrom<$subtype> (152-159)
BoundedNew(type, value) ==
    IF value <= MaxOf(type) /\ value >= 0
    THEN Ok(value)
    ELSE Err("OutOfBounds", value)

\* FromStr (167-175): parse the u16, then new
BoundedFromStr(type, s) ==
    IF s \in 0 .. U16Max THEN BoundedNew(type, s) ELSE Err("ParseInt", s)

\* the derived, transparent Deserialize (88-91): the u16 as it is read
BoundedDeserialize(type, value) == Ok(value)

\* saturating_add (133-137): u16 saturating_add, then min(MAX)
saturating_add(type, a, rhs) ==
    LET sum == IF a + rhs > U16Max THEN U16Max ELSE a + rhs
    IN  IF sum < MaxOf(type) THEN sum ELSE MaxOf(type)

\* saturating_sub (139-144): u16 saturating_sub, then max(MIN)
saturating_sub(type, a, rhs) == IF a - rhs < 0 THEN 0 ELSE a - rhs

\* a value is made by one of the three constructors
Construct(type, via, arg) ==
    /\ bnOp' = [name |-> via, type |-> type, arg |-> arg,
                from |-> Err("none", 0)]
    /\ bnValue' =
          CASE via = "new" -> BoundedNew(type, arg)
            [] via = "from_str" -> BoundedFromStr(type, arg)
            [] via = "deserialize" -> BoundedDeserialize(type, arg)
    /\ UNCHANGED <<mvVolume, mvOp, mvGot>>
    /\ UNCHANGED exceptVolume

\* saturating arithmetic on a value a constructor has made
Saturate(name, rhs) ==
    /\ bnValue.ok
    /\ bnOp.name \in {"new", "from_str", "deserialize"}
    /\ bnOp' = [name |-> name, type |-> bnOp.type, arg |-> rhs,
                from |-> bnValue]
    /\ bnValue' =
          Ok(IF name = "saturating_add"
             THEN saturating_add(bnOp.type, bnValue.value, rhs)
             ELSE saturating_sub(bnOp.type, bnValue.value, rhs))
    /\ UNCHANGED <<mvVolume, mvOp, mvGot>>
    /\ UNCHANGED exceptVolume

VolumeTargets == {"player", "group"}

\* the step argument of volume_up / volume_down: <<>> if it is omitted,
\* else the string given
StepArgs == {<<>>} \cup {<<s>> : s \in {-1, 0, 5, 10, 11}}

MockOp(target, name, arg, reply) ==
    [target |-> target, name |-> name, arg |-> arg, reply |-> reply,
     before |-> mvVolume[target]]

\* parse_command_argument_default::<VolumeStep> (189-203)
ParseStep(arg) ==
    IF arg = <<>> THEN Ok(VolumeStepDefault)
    ELSE BoundedFromStr("VolumeStep", arg[1])

\* player/set_volume (1052-1056), group/set_volume (1344-1348)
MockSetVolume(target, level) ==
    LET v == BoundedFromStr("Volume", level) IN
    /\ mvOp' = MockOp(target, "set_volume", <<level>>,
                      IF v.ok THEN "ok" ELSE "error")
    /\ mvGot' = <<>>
    /\ mvVolume' = IF v.ok THEN [mvVolume EXCEPT ![target] = v.value]
                   ELSE mvVolume
    /\ UNCHANGED <<bnOp, bnValue>>
    /\ UNCHANGED exceptVolume

\* player/volume_up, volume_down (1057-1066), group/volume_up, volume_down
\* (1349-1358): Volume is Copy and saturating_add / saturating_sub take
\* self by value and return the new value; the handler calls them as a
\* statement, so the value is dropped and snapshot.volume is not assigned
MockVolumeStep(target, name, arg) ==
    LET step == ParseStep(arg) IN
    /\ mvOp' = MockOp(target, name, arg, IF step.ok THEN "ok" ELSE "error")
    /\ mvGot' = <<>>
    /\ UNCHANGED <<bnOp, bnValue, mvVolume>>
    /\ UNCHANGED exceptVolume

\* player/get_volume (1046-1051), group/get_volume (1338-1343)
MockGetVolume(target) ==
    /\ mvGot' = <<target, mvVolume[target]>>
    /\ UNCHANGED <<bnOp, bnValue, mvVolume, mvOp>>
    /\ UNCHANGED exceptVolume

\* MockPlayer::new (295), MockGroup::new (380): volume 100
VolumeInit ==
    /\ bnOp = [name |-> "none", type |-> "Volume", arg |-> 0,
               from |-> Err("none", 0)]
    /\ bnValue = Err("none", 0)
    /\ mvVolume = [t \in VolumeTargets |-> VolumeMax]
    /\ mvOp = [target |-> "player", name |-> "none", arg |-> <<>>,
               reply |-> "ok", before |-> VolumeMax]
    /\ mvGot = <<>>

NumbersNext ==
    \/ \E type \in BoundedTypes, arg \in NumArgs :
          \/ Construct(type, "new", arg)
          \/ Construct(type, "deserialize", arg)
    \/ \E type \in BoundedTypes, arg \in StrArgs :
          Construct(type, "from_str", arg)
    \/ \E name \in {"saturating_add", "saturating_sub"}, rhs \in NumArgs :
          Saturate(name, rhs)

MockVolumeNext ==
    \/ \E t \in VolumeTargets, level \in LevelArgs : MockSetVolume(t, level)
    \/ \E t \in VolumeTargets, name \in {"volume_up", "volume_down"},
          arg \in StepArgs : MockVolumeStep(t, name, arg)
    \/ \E t \in VolumeTargets : MockGetVolume(t)


(***************************************************************************)
(* Part VIII.  The progress of the playing track of one player of the      *)
(* stateful model (state/player.rs 23-58, 130-177) under the three events  *)
(* that touch it (state/mod.rs 275-293).  Durations and instants are       *)
(* whole numbers of one unit; clock is Instant::now().                     *)
(***************************************************************************)
exceptProgress == <<chanVars, stateVars, lifeVars, bcastVars, groupVars, queueVars, volumeVars, playablesVars, readerVars, rawVars, updaterVars, iterVars, modelVolumeVars, searchVars>>

PlayStates == {"Play", "Pause", "Stop"}

\* baseline: None
NoBaseline == -1

\* cur_pos and duration of a progress event
Durations == 0 .. MaxDuration

\* Duration::min
DurationMin(a, b) == IF a < b THEN a ELSE b

\* NowPlayingProgress::interpolated_elapsed (51-58) called at instant now
interpolated_elapsed(elapsed, duration, baseline, now) ==
    IF baseline # NoBaseline
    THEN DurationMin(elapsed + (now - baseline), duration)
    ELSE elapsed

\* PausedBaseline as it would be if the baseline were kept
PausedBaseline_Kept(baseline) == baseline

\* the baseline update_play_state leaves on Pause or Stop
PausedBaseline(baseline) == NoBaseline

\* PlayerData::update_play_state (130-146)
UpdatePlayState(new_play_state) ==
    /\ npPlayState # "unfetched"
    /\ npPlayState' = new_play_state
    /\ IF new_play_state = "Play"
       THEN /\ npBaseline' = (IF npBaseline = NoBaseline THEN clock
                              ELSE npBaseline)
            /\ UNCHANGED npElapsed
       ELSE /\ npElapsed' = interpolated_elapsed(npElapsed, npDuration,
                                                 npBaseline, clock)
            /\ npBaseline' = PausedBaseline(npBaseline)
    /\ npLast' = <<"player_state_changed", clock>>
    /\ UNCHANGED <<clock, npDuration>>
    /\ UNCHANGED exceptProgress

\* UpdateNowPlaying as it would be if the new track always got a baseline
UpdateNowPlaying_AlwaysBaseline ==
    /\ npPlayState # "unfetched"
    /\ npBaseline' = clock
    /\ npElapsed' = 0
    /\ npDuration' = 0
    /\ npLast' = <<"player_now_playing_changed", clock>>
    /\ UNCHANGED <<clock, npPlayState>>
    /\ UNCHANGED exceptProgress

\* PlayerData::update_now_playing (148-165)
UpdateNowPlaying ==
    /\ npPlayState # "unfetched"
    /\ npBaseline' = (IF npPlayState = "Play" THEN clock ELSE NoBaseline)
    /\ npElapsed' = 0
    /\ npDuration' = 0
    /\ npLast' = <<"player_now_playing_changed", clock>>
    /\ UNCHANGED <<clock, npPlayState>>
    /\ UNCHANGED exceptProgress

\* PlayerData::update_now_playing_progress (167-176)
UpdateNowPlayingProgress(elapsed, duration) ==
    /\ npPlayState # "unfetched"
    /\ npElapsed' = elapsed
    /\ npDuration' = duration
    /\ npBaseline' = (IF npPlayState = "Play" THEN clock ELSE npBaseline)
    /\ npLast' = <<"player_now_playing_progress", clock>>
    /\ UNCHANGED <<clock, npPlayState>>
    /\ UNCHANGED exceptProgress

\* time passes
Tick ==
    /\ clock < MaxClock
    /\ clock' = clock + 1
    /\ UNCHANGED <<npElapsed, npDuration, npBaseline, npPlayState, npLast>>
    /\ UNCHANGED exceptProgress

\* PlayerData::get (90-128): no progress known, the play state as fetched
PlayerDataGet(play_state) ==
    /\ npPlayState = "unfetched"
    /\ npPlayState' = play_state
    /\ npElapsed' = 0
    /\ npDuration' = 0
    /\ npBaseline' = NoBaseline
    /\ UNCHANGED <<clock, npLast>>
    /\ UNCHANGED exceptProgress

\* the player is not in the players table yet; events for it are ignored
\* (state/mod.rs 276, 285, 290)
ProgressInit ==
    /\ clock = 0
    /\ npElapsed = 0
    /\ npDuration = 0
    /\ npBaseline = NoBaseline
    /\ npPlayState = "unfetched"
    /\ npLast = <<"none", 0>>

ProgressNext ==
    \/ \E s \in PlayStates : PlayerDataGet(s)
    \/ \E s \in PlayStates : UpdatePlayState(s)
    \/ UpdateNowPlaying
    \/ \E e, d \in Durations : UpdateNowPlayingProgress(e, d)
    \/ Tick

\* what a reader of the model is given now
InterpolatedNow ==
    interpolated_elapsed(npElapsed, npDuration, npBaseline, clock)


(***************************************************************************)
(* Part IX.  State::playables (state/mod.rs 259-268) and the iterator it   *)
(* returns (state/playable.rs 481-521) over the players and groups tables  *)
(* of the stateful model.  The two tables are replaced separately          *)
(* (state/mod.rs 170-198), so a group can name players that the players    *)
(* table does not hold.                                                    *)
(***************************************************************************)
exceptPlayables == <<chanVars, stateVars, lifeVars, bcastVars, groupVars, queueVars, volumeVars, progressVars, readerVars, rawVars, updaterVars, iterVars, modelVolumeVars, searchVars>>

PlayableIds == 1 .. NumPlayables

\* GroupData: its id, its leader and the players of its info (the leader
\* among them)
GroupDatas ==
    {[group_id |-> l, leader_id |-> l, players |-> m] :
        l \in PlayableIds,
        m \in {x \in SUBSET PlayableIds : Cardinality(x) >= 2}}

\* the groups table in the order GroupsIter pops its ids: up to two groups
\* with a leader each of which is a member, no player in two groups
GroupTables ==
    LET led == {g \in GroupDatas : g.leader_id \in g.players} IN
    {<<>>}
    \cup {<<g>> : g \in led}
    \cup {t \in {<<g, h>> : g, h \in led} :
             t[1].players \cap t[2].players = {}}

\* the ids of a table as PlayersIter pops them (the order of HashMap::keys
\* is arbitrary; the model pops the largest id first)
RECURSIVE PopOrder(_)
PopOrder(ids) ==
    IF ids = {} THEN <<>>
    ELSE LET m == CHOOSE i \in ids : \A j \in ids : j <= i
         IN  <<m>> \o PopOrder(ids \ {m})

\* PlayablesIter::new (488-496) on the tables as they are
PlayablesNew(players, groups) ==
    /\ plPhase = "idle"
    /\ plPhase' = "iterating"
    /\ plPlayers' = players
    /\ plGroups' = groups
    /\ plGroupsLeft' = groups
    /\ plPlayersLeft' = PopOrder(players)
    /\ plYielded' = {}
    /\ plOut' = <<>>
    /\ UNCHANGED exceptPlayables

\* the player whose id is missing from the table ends next() through `?`
LeaderLookup(group) == group.leader_id \in plPlayers

\* PlayablesIter::next (501-509): a group is left
NextGroup ==
    /\ plPhase = "iterating"
    /\ plGroupsLeft # <<>>
    /\ plGroupsLeft' = Tail(plGroupsLeft)
    /\ IF LeaderLookup(Head(plGroupsLeft))
       THEN /\ plYielded' = plYielded \cup Head(plGroupsLeft).players
            /\ plOut' = Append(plOut, <<"group", Head(plGroupsLeft).group_id>>)
            /\ UNCHANGED plPhase
       ELSE /\ plPhase' = "done"
            /\ UNCHANGED <<plYielded, plOut>>
    /\ UNCHANGED <<plPlayers, plGroups, plPlayersLeft>>
    /\ UNCHANGED exceptPlayables

\* the players the while loop (511-516) pops until it finds one to yield
Skipped(left, yielded) ==
    IF \E i \in 1 .. Len(left) : left[i] \notin yielded
    THEN (CHOOSE i \in 1 .. Len(left) :
             /\ left[i] \notin yielded
             /\ \A j \in 1 .. i - 1 : left[j] \in yielded) - 1
    ELSE Len(left)

\* PlayablesIter::next (511-519): no group is left
NextPlayer ==
    /\ plPhase = "iterating"
    /\ plGroupsLeft = <<>>
    /\ LET n == Skipped(plPlayersLeft, plYielded) IN
       IF n < Len(plPlayersLeft)
       THEN /\ plYielded' = plYielded \cup {plPlayersLeft[n + 1]}
            /\ plOut' = Append(plOut, <<"player", plPlayersLeft[n + 1]>>)
            /\ plPlayersLeft' = SubSeq(plPlayersLeft, n + 2, Len(plPlayersLeft))
            /\ UNCHANGED plPhase
       ELSE /\ plPhase' = "done"
            /\ plPlayersLeft' = <<>>
            /\ UNCHANGED <<plYielded, plOut>>
    /\ UNCHANGED <<plPlayers, plGroups, plGroupsLeft>>
    /\ UNCHANGED exceptPlayables

PlayablesInit ==
    /\ plPhase = "idle"
    /\ plPlayers = {}
    /\ plGroups = <<>>
    /\ plGroupsLeft = <<>>
    /\ plPlayersLeft = <<>>
    /\ plYielded = {}
    /\ plOut = <<>>

PlayablesNext ==
    \/ \E players \in SUBSET PlayableIds, groups \in GroupTables :
          PlayablesNew(players, groups)
    \/ NextGroup
    \/ NextPlayer


(***************************************************************************)
(* Part X.  The reader task of Part I under a run of event frames          *)
(* (channel.rs 169-178, 297-310), with the frames it was handed on record. *)
(***************************************************************************)
exceptReader == <<stateVars, lifeVars, bcastVars, groupVars, queueVars, volumeVars, progressVars, playablesVars, rawVars, updaterVars, iterVars, modelVolumeVars, searchVars>>

\* the reader reads an event frame and hands it to handle_response; the
\* loop goes on whatever handle_response did with it
ReaderEvent(name) ==
    /\ socket = "open"
    /\ Len(rdLog) < MaxReaderEvents
    /\ rdLog' = Append(rdLog, name)
    /\ handle_response(EventFrame(name))
    /\ UNCHANGED <<next_msg_id, eventFrames, mutex, pc, cur, calls, device,
                   devAcked, answered, socket, eofReads>>
    /\ UNCHANGED exceptReader

ReaderInit == rdLog = <<>>

\* callers that send commands and get their replies, and event frames
ReaderNext ==
    \/ \E t \in Tasks : Request(t)
    \/ \E t \in Tasks, cmd \in CmdNames : Begin(t, cmd)
    \/ \E t \in Tasks : Write(t)
    \/ \E t \in Tasks : RecvImmediate(t)
    \/ \E s \in Sent : ReadFinal(s, FALSE)
    \/ \E name \in EventNames : ReaderEvent(name)


(***************************************************************************)
(* Part XI.  A raw command from a typed command (command/raw/ser.rs        *)
(* 215-233), its textual form (command/raw/mod.rs 144-159) and the         *)
(* parameters a reader of that text finds in it.  A string is a sequence   *)
(* of characters.                                                          *)
(***************************************************************************)
exceptRaw == <<chanVars, stateVars, lifeVars, bcastVars, groupVars, queueVars, volumeVars, progressVars, playablesVars, readerVars, updaterVars, iterVars, modelVolumeVars, searchVars>>

\* the names of the fields of a typed command
ParamKeys == {<<"u">>, <<"p">>}

\* the characters a String field can hold: a plain one and the two the
\* textual form uses itself
ValueChars == {"a", "&", "="}

\* the values of a String field, and None for an Option left out
ParamValues == UNION {[1 .. n -> ValueChars] : n \in 0 .. MaxValueLen}
NoValue == <<"None">>

\* "heos://{group}/{command}"
CommandPrefix == <<"heos://", "system", "/", "sign_in">>

\* RawCommand::param (115-122): HashMap::insert
ParamInsert(params, key, value) ==
    {kv \in params : kv[1] # key} \cup {<<key, value>>}

\* SerializeStruct::serialize_field (218-228) for every field of the
\* command: a field that serializes to None adds no parameter
RECURSIVE SerializeFields(_, _)
SerializeFields(fields, keys) ==
    IF keys = {} THEN {}
    ELSE LET key == CHOOSE k \in keys : TRUE
             rest == SerializeFields(fields, keys \ {key})
         IN  IF fields[key] = NoValue THEN rest
             ELSE ParamInsert(rest, key, fields[key])

\* Display for RawCommand (144-159), the parameters in the order the
\* HashMap hands them out; nothing is escaped
RECURSIVE WriteParams(_, _)
WriteParams(pairs, first) ==
    IF pairs = <<>> THEN <<>>
    ELSE <<IF first THEN "?" ELSE "&">> \o Head(pairs)[1] \o <<"=">>
         \o Head(pairs)[2] \o WriteParams(Tail(pairs), FALSE)

\* the orders in which a HashMap can hand out its entries
Orders(params) ==
    {o \in [1 .. Cardinality(params) -> params] :
        \A i, j \in 1 .. Cardinality(params) : i # j => o[i] # o[j]}

\* the position of the first c in a text, 0 if there is none
IndexOf(text, c) ==
    IF \E i \in 1 .. Len(text) : text[i] = c
    THEN CHOOSE i \in 1 .. Len(text) :
            text[i] = c /\ \A j \in 1 .. i - 1 : text[j] # c
    ELSE 0

\* a query string read back: split at "&", each piece at its first "=";
\* a later piece replaces an earlier one of the same name
RECURSIVE ReadParams(_, _)
ReadParams(text, params) ==
    IF text = <<>> THEN params
    ELSE LET amp == IndexOf(text, "&")
             piece == IF amp = 0 THEN text ELSE SubSeq(text, 1, amp - 1)
             rest == IF amp = 0 THEN <<>>
                     ELSE SubSeq(text, amp + 1, Len(text))
             eq == IndexOf(piece, "=")
             key == IF eq = 0 THEN piece ELSE SubSeq(piece, 1, eq - 1)
             value == IF eq = 0 THEN <<>>
                      ELSE SubSeq(piece, eq + 1, Len(piece))
         IN  ReadParams(rest, IF piece = <<>> THEN params
                              ELSE ParamInsert(params, key, value))

\* RawCommand::from_command on a typed command with the given fields
FromCommand(fields) ==
    /\ rcPhase = "new"
    /\ rcPhase' = "raw"
    /\ rcParams' = SerializeFields(fields, ParamKeys)
    /\ UNCHANGED <<rcText, rcParsed>>
    /\ UNCHANGED exceptRaw

\* RawCommand::to_string, through Display::fmt
Display(order) ==
    /\ rcPhase = "raw"
    /\ rcPhase' = "text"
    /\ rcText' = CommandPrefix \o WriteParams(order, TRUE)
    /\ UNCHANGED <<rcParams, rcParsed>>
    /\ UNCHANGED exceptRaw

\* the text is parsed back into parameters
ParseBack ==
    /\ rcPhase = "text"
    /\ rcPhase' = "parsed"
    /\ rcParsed' =
          LET q == IndexOf(rcText, "?") IN
          IF q = 0 THEN {}
          ELSE ReadParams(SubSeq(rcText, q + 1, Len(rcText)), {})
    /\ UNCHANGED <<rcParams, rcText>>
    /\ UNCHANGED exceptRaw

RawInit ==
    /\ rcPhase = "new"
    /\ rcParams = {}
    /\ rcText = <<>>
    /\ rcParsed = {}

RawNext ==
    \/ \E fields \in [ParamKeys -> ParamValues \cup {NoValue}] :
          FromCommand(fields)
    \/ \E order \in Orders(rcParams) : Display(order)
    \/ ParseBack


(***************************************************************************)
(* Part XII.  The subscribe-and-refresh helper of the front end            *)
(* (heos-control/src/updater.rs).  An entry holds a weak reference to a    *)
(* data slot (a Bind), a predicate on events, a refresh function and the   *)
(* flag queued.  The event loop and check_queued both hold the lock of     *)
(* the entry list while they run, so each is one step.                     *)
(***************************************************************************)
exceptUpdater == <<chanVars, stateVars, lifeVars, bcastVars, groupVars, queueVars, volumeVars, progressVars, playablesVars, readerVars, rawVars, iterVars, modelVolumeVars, searchVars>>

UpdateEntries == 1 .. NumEntries

\* Weak::upgrade succeeds (is_active, 63-65)
IsActive(e) == udBind[e] \in {"idle", "pending", "finished"}

\* Bind::is_pending
IsPending(e) == udBind[e] = "pending"

\* UpdateEntryTyped::check_update (67-79) on an event the predicate
\* accepts (matches) or not
CheckUpdateQueued(e, matches) ==
    IF matches /\ IsActive(e)
    THEN IsPending(e)
    ELSE udQueued[e]

CheckUpdateBind(e, matches) ==
    IF matches /\ IsActive(e) /\ ~IsPending(e)
    THEN "pending"
    ELSE udBind[e]

\* UpdateEntryTyped::check_queued (81-93)
CheckQueuedLaunches(e) == udQueued[e] /\ IsActive(e) /\ ~IsPending(e)

CheckQueuedQueued(e) ==
    IF udQueued[e] /\ ~IsActive(e) THEN FALSE ELSE udQueued[e]

\* Updater::register (138-154): UpdateEntryTyped::new (36-43) pushed on
\* the list; the caller's slot is idle or has a first request under way
Register(e, requested) ==
    /\ udBind[e] = "none"
    /\ udEntries' = udEntries \cup {e}
    /\ udBind' = [udBind EXCEPT ![e] = IF requested THEN "pending" ELSE "idle"]
    /\ udQueued' = [udQueued EXCEPT ![e] = FALSE]
    /\ udLaunched' = [udLaunched EXCEPT ![e] = 0]
    /\ udLast' = <<"register", e>>
    /\ UNCHANGED exceptUpdater

\* the event loop of Updater::new (113-120) on one event: the entries
\* whose slot is gone are dropped from the list, every other entry
\* checks the event
UpdaterEvent(matching) ==
    /\ udEntries # {}
    /\ matching \subseteq udEntries
    /\ udEntries' = {e \in udEntries : IsActive(e)}
    /\ udQueued' = [e \in UpdateEntries |->
                      IF e \in udEntries'
                      THEN CheckUpdateQueued(e, e \in matching)
                      ELSE udQueued[e]]
    /\ udBind' = [e \in UpdateEntries |->
                      IF e \in udEntries'
                      THEN CheckUpdateBind(e, e \in matching)
                      ELSE udBind[e]]
    /\ udLaunched' = [e \in UpdateEntries |->
                      IF e \in udEntries' /\ e \in matching
                      THEN 0 ELSE udLaunched[e]]
    /\ udLast' = <<"event", matching>>
    /\ UNCHANGED exceptUpdater

\* Updater::check_queued (156-161)
UpdaterCheckQueued ==
    /\ udEntries # {}
    /\ \A e \in udEntries :
          CheckQueuedLaunches(e) => udLaunched[e] < MaxLaunches
    /\ udBind' = [e \in UpdateEntries |->
                      IF e \in udEntries /\ CheckQueuedLaunches(e)
                      THEN "pending" ELSE udBind[e]]
    /\ udLaunched' = [e \in UpdateEntries |->
                      IF e \in udEntries /\ CheckQueuedLaunches(e)
                      THEN udLaunched[e] + 1 ELSE udLaunched[e]]
    /\ udQueued' = [e \in UpdateEntries |->
                      IF e \in udEntries
                      THEN CheckQueuedQueued(e) ELSE udQueued[e]]
    /\ udLast' = <<"check_queued", {e \in udEntries : CheckQueuedLaunches(e)}>>
    /\ UNCHANGED udEntries
    /\ UNCHANGED exceptUpdater

\* the refresh a slot is waiting for completes
RefreshDone(e) ==
    /\ udBind[e] = "pending"
    /\ udBind' = [udBind EXCEPT ![e] = "finished"]
    /\ udLast' = <<"done", e>>
    /\ UNCHANGED <<udEntries, udQueued, udLaunched>>
    /\ UNCHANGED exceptUpdater

\* the owner of a slot drops it
DropBind(e) ==
    /\ IsActive(e)
    /\ udBind' = [udBind EXCEPT ![e] = "dropped"]
    /\ udLast' = <<"drop", e>>
    /\ UNCHANGED <<udEntries, udQueued, udLaunched>>
    /\ UNCHANGED exceptUpdater

UpdaterInit ==
    /\ udEntries = {}
    /\ udBind = [e \in UpdateEntries |-> "none"]
    /\ udQueued = [e \in UpdateEntries |-> FALSE]
    /\ udLaunched = [e \in UpdateEntries |-> 0]
    /\ udLast = <<"new", 0>>

UpdaterNext ==
    \/ \E e \in UpdateEntries, requested \in BOOLEAN : Register(e, requested)
    \/ \E matching \in SUBSET UpdateEntries : UpdaterEvent(matching)
    \/ UpdaterCheckQueued
    \/ \E e \in UpdateEntries : RefreshDone(e)
    \/ \E e \in UpdateEntries : DropBind(e)


(***************************************************************************)
(* Part XIII.  An iterator over one table of the stateful model            *)
(* (heos/src/state/mod.rs 66-118) next to the coarse refresh of that       *)
(* table (170-183).  The table sits in a tokio RwLock, which is            *)
(* write-preferring: once a writer waits, no further read guard is handed  *)
(* out, and try_read fails instead of waiting.  One caller task holds the  *)
(* iterator and the views it yields.                                       *)
(***************************************************************************)
exceptIter == <<chanVars, stateVars, lifeVars, bcastVars, groupVars, queueVars, volumeVars, progressVars, playablesVars, readerVars, rawVars, updaterVars, modelVolumeVars, searchVars>>

IterIds == 1 .. NumIterIds

\* the read guards on the table: the iterator's _guard and one per view
ReadGuards == (IF itPhase = "alive" THEN 1 ELSE 0) + itViews

\* RwLock::read().await can complete, RwLock::try_read() returns Ok
ReadGranted == itWriter = "idle"

\* the orders in which HashMap::keys can hand out the ids of a table
KeyOrders(table) ==
    {o \in [1 .. Cardinality(table) -> table] :
        \A i, j \in 1 .. Cardinality(table) : i # j => o[i] # o[j]}

\* locked_data_iter::new (77-89): data.read().await, then the keys
IterNew(ids) ==
    /\ itPhase = "none"
    /\ ReadGranted
    /\ itPhase' = "alive"
    /\ itIds' = ids
    /\ itLast' = <<"new", 0>>
    /\ UNCHANGED <<itViews, itWriter, itTable>>
    /\ UNCHANGED exceptIter

\* locked_data_iter::get (91-97): try_read().expect(..) panics when the read
\* guard is refused; the panic unwinds the task, which drops the iterator
\* and the views it holds; otherwise the view of a known id keeps the guard
IterGetStep(id, op) ==
    IF ReadGranted
    THEN /\ itViews' = IF id \in itTable THEN itViews + 1 ELSE itViews
         /\ itPhase' = itPhase
         /\ itLast' = <<op, id>>
    ELSE /\ itViews' = 0
         /\ itPhase' = "panicked"
         /\ itLast' = <<"panic", id>>

IterGet(id) ==
    /\ itPhase = "alive"
    /\ itViews < MaxViews
    /\ IterGetStep(id, "get")
    /\ itIds' = IF ReadGranted THEN itIds ELSE <<>>
    /\ UNCHANGED <<itWriter, itTable>>
    /\ UNCHANGED exceptIter

\* Iterator::next (103-106): ids.pop(), then get
IterNextItem ==
    /\ itPhase = "alive"
    /\ itIds # <<>>
    /\ itViews < MaxViews
    /\ IterGetStep(itIds[Len(itIds)], "next")
    /\ itIds' = IF ReadGranted THEN SubSeq(itIds, 1, Len(itIds) - 1) ELSE <<>>
    /\ UNCHANGED <<itWriter, itTable>>
    /\ UNCHANGED exceptIter

\* the caller drops a view it got from the iterator
IterViewDrop ==
    /\ itPhase \in {"none", "alive"}
    /\ itViews > 0
    /\ itViews' = itViews - 1
    /\ itLast' = <<"view_drop", 0>>
    /\ UNCHANGED <<itPhase, itIds, itWriter, itTable>>
    /\ UNCHANGED exceptIter

\* the caller drops the iterator
IterDrop ==
    /\ itPhase = "alive"
    /\ itPhase' = "none"
    /\ itIds' = <<>>
    /\ itLast' = <<"drop", 0>>
    /\ UNCHANGED <<itViews, itWriter, itTable>>
    /\ UNCHANGED exceptIter

\* update_players (170-183) has built its map and reaches write().await
RefreshWaits ==
    /\ itWriter = "idle"
    /\ itWriter' = "waiting"
    /\ itLast' = <<"write_wait", 0>>
    /\ UNCHANGED <<itPhase, itIds, itViews, itTable>>
    /\ UNCHANGED exceptIter

\* the write guard is handed out when no read guard is left; line 180
\* assigns the new map and lets the guard go
RefreshWrites(table) ==
    /\ itWriter = "waiting"
    /\ ReadGuards = 0
    /\ itWriter' = "idle"
    /\ itTable' = table
    /\ itLast' = <<"write", 0>>
    /\ UNCHANGED <<itPhase, itIds, itViews>>
    /\ UNCHANGED exceptIter

IterInit ==
    /\ itPhase = "none"
    /\ itIds = <<>>
    /\ itViews = 0
    /\ itWriter = "idle"
    /\ itTable = IterIds
    /\ itLast = <<"init", 0>>

IterNext ==
    \/ \E ids \in KeyOrders(itTable) : IterNew(ids)
    \/ \E id \in IterIds : IterGet(id)
    \/ IterNextItem
    \/ IterViewDrop
    \/ IterDrop
    \/ RefreshWaits
    \/ \E table \in SUBSET IterIds : RefreshWrites(table)


(***************************************************************************)
(* Part XIV.  The volumes held in the stateful model: one player and one   *)
(* group.  A volume comes from the reply of get_volume when the entry is   *)
(* fetched (state/player.rs 83-128, state/group.rs) and from the level of  *)
(* a volume event (state/mod.rs 307-328).  The level of a reply or an      *)
(* event is decimal text, modelled as the integer it spells.               *)
(***************************************************************************)
exceptModelVolume == <<chanVars, stateVars, lifeVars, bcastVars, groupVars, queueVars, volumeVars, progressVars, playablesVars, readerVars, rawVars, updaterVars, iterVars, searchVars>>

VolumeHolders == {"player", "group"}

\* the level of a reply: impl_try_from_qs (data/mod.rs 201-228) reads the
\* parameter with FromStr
ReplyLevel(text) == BoundedFromStr("Volume", text)

\* the level of an event: serde_qs fills the derived Deserialize of
\* PlayerVolumeChanged / GroupVolumeChanged (data/event.rs 77-119), which
\* reads a u16 and wraps it
EventLevel(text) ==
    IF text \in 0 .. U16Max THEN BoundedDeserialize("Volume", text)
    ELSE Err("ParseInt", text)

\* PlayerData::get / GroupData::get: the entry is built from the replies;
\* a reply that does not parse fails the fetch and the entry stays
FetchVolume(h, text) ==
    /\ smVolume' = IF ReplyLevel(text).ok
                   THEN [smVolume EXCEPT ![h] = ReplyLevel(text).value]
                   ELSE smVolume
    /\ smLast' = <<"fetch", h, text, ReplyLevel(text).ok>>
    /\ UNCHANGED exceptModelVolume

\* Event::try_from, then State::handle_event on PlayerVolumeChanged (307-312)
\* or GroupVolumeChanged (323-328); an event that does not parse is dropped
\* by the reader
VolumeChanged(h, text) ==
    /\ smVolume' = IF EventLevel(text).ok
                   THEN [smVolume EXCEPT ![h] = EventLevel(text).value]
                   ELSE smVolume
    /\ smLast' = <<"event", h, text, EventLevel(text).ok>>
    /\ UNCHANGED exceptModelVolume

ModelVolumeInit ==
    /\ smVolume = [h \in VolumeHolders |-> 0]
    /\ smLast = <<"init", "", 0, TRUE>>

ModelVolumeNext ==
    \/ \E h \in VolumeHolders, text \in StrArgs : FetchVolume(h, text)
    \/ \E h \in VolumeHolders, text \in StrArgs : VolumeChanged(h, text)


(***************************************************************************)
(* Part XV.  Source::search (heos/src/state/source.rs 128-162): the loop   *)
(* that repeats the Search command until the items are complete.  Only     *)
(* the number of items matters; all_items.len() is kept up to MaxCount,    *)
(* since a longer list compares like MaxCount with every count a reply     *)
(* can carry.                                                              *)
(***************************************************************************)
exceptSearch == <<chanVars, stateVars, lifeVars, bcastVars, groupVars, queueVars, volumeVars, progressVars, playablesVars, readerVars, rawVars, updaterVars, iterVars, modelVolumeVars>>

\* the count and the number of source_items of a reply
ReplyCounts == 0 .. MaxCount
ReplyItems == 0 .. PageSize

\* all_items.len() after extend
Extended(len, items) ==
    IF len + items > MaxCount THEN MaxCount ELSE len + items

\* search_impl (133-136): the empty lists before the loop
SearchCall ==
    /\ srPhase = "idle"
    /\ srPhase' = "loop"
    /\ srLen' = 0
    /\ srOptions' = FALSE
    /\ srLast' = <<"call", 0, 0>>
    /\ UNCHANGED exceptSearch

\* one turn of the loop (137-157) on a reply that parsed: count, the number
\* of source_items, and whether the reply has options
SearchReply(count, items, opts) ==
    /\ srPhase = "loop"
    /\ srOptions' = IF srOptions THEN srOptions ELSE opts
    /\ IF items = 0
       THEN /\ srPhase' = "returned"
            /\ UNCHANGED srLen
       ELSE /\ srLen' = Extended(srLen, items)
            /\ srPhase' = IF count # 0 /\ srLen' >= count
                          THEN "returned" ELSE "loop"
    /\ srLast' = <<"reply", count, items>>
    /\ UNCHANGED exceptSearch

\* send_command(..).await? (137-143) on a reply that is an error
SearchError ==
    /\ srPhase = "loop"
    /\ srPhase' = "failed"
    /\ srLast' = <<"error", 0, 0>>
    /\ UNCHANGED <<srLen, srOptions>>
    /\ UNCHANGED exceptSearch

\* the device answers the Search command that is outstanding
SearchAnswered ==
    \/ \E count \in ReplyCounts, items \in ReplyItems, opts \in BOOLEAN :
          SearchReply(count, items, opts)
    \/ SearchError

SearchInit ==
    /\ srPhase = "idle"
    /\ srLen = 0
    /\ srOptions = FALSE
    /\ srLast = <<"none", 0, 0>>

SearchNext ==
    \/ SearchCall
    \/ SearchAnswered

Init ==
    /\ ChanInit /\ StateInit /\ LifeInit /\ BcastInit /\ GroupsInit
    /\ QueueInit
    /\ VolumeInit
    /\ ProgressInit
    /\ PlayablesInit
    /\ ReaderInit
    /\ RawInit
    /\ UpdaterInit
    /\ IterInit
    /\ ModelVolumeInit
    /\ SearchInit

\* the channel of one connection, with its callers, its reader and the device
SpecChannel == Init /\ [][ChanNext]_vars

\* the stateful model of one connection, with its event task and its callers
SpecState == Init /\ [][StateNext]_vars

\* the life cycle of one connection, with the device's events
SpecLife == Init /\ [][LifeNext]_vars

\* the channel broadcast of one connection, with the reader and a receiver
SpecBcast == Init /\ [][BcastNext]_vars

\* the two broadcasts of a Stateful connection, with the reader, the event
\* task and the receivers
SpecEvents == Init /\ [][EventsNext]_vars

\* the mock system's group table under set_group commands
SpecGroups == Init /\ [][GroupsNext]_vars

\* one mock player's queue under the queue commands
SpecQueue == Init /\ [][QueueNext]_vars

\* the bounded number types under their constructors and arithmetic
SpecNumbers == Init /\ [][NumbersNext]_vars

\* the mock system under the volume commands
SpecMockVolume == Init /\ [][MockVolumeNext]_vars

\* the progress of one player under its events and the passing of time
SpecProgress == Init /\ [][ProgressNext]_vars

\* one run of the iterator over playables
SpecPlayables == Init /\ [][PlayablesNext]_vars

\* the channel's reader under event frames, with callers waiting for replies
SpecReader == Init /\ [][ReaderNext]_vars

\* a typed command made raw, written as text and read back
SpecRaw == Init /\ [][RawNext]_vars

\* events, frames of the front end and refreshes in any order
SpecUpdater == Init /\ [][UpdaterNext]_vars

\* an iterator, its views and refreshes of its table in any order
SpecIter == Init /\ [][IterNext]_vars

\* replies and volume events with any level
SpecModelVolume == Init /\ [][ModelVolumeNext]_vars

\* a search whose every command is answered
SpecSearchFair ==
    /\ Init /\ [][SearchNext]_vars
    /\ WF_vars(SearchCall)
    /\ WF_vars(SearchAnswered)

\* the scheduler runs every task that can make a step: the callers and the
\* reader; a caller is never obliged to send or to drop a future
SpecChannelFair ==
    /\ SpecChannel
    /\ WF_vars(ReaderStep)
    /\ \A t \in Tasks : WF_vars(CallerStep(t))

\* the callers and the reader on an open socket with a device that only
\* acknowledges and answers commands
DelayedCallerStep(t) ==
    \/ Write(t)
    \/ RecvImmediate(t)
    \/ PollFuture(t)

DelayedReaderStep ==
    \/ \E s \in Sent : ReadDelay(s)
    \/ \E s \in Sent, withSeq \in BOOLEAN : ReadFinal(s, withSeq)

DelayedNext ==
    \/ \E t \in Tasks : Request(t)
    \/ \E t \in Tasks, cmd \in CmdNames : Begin(t, cmd)
    \/ \E t \in Tasks : DelayedCallerStep(t)
    \/ \E t \in Tasks : Cancel(t)
    \/ DelayedReaderStep

\* the scheduler runs the reader and every caller that can make a step
SpecDelayedFair ==
    /\ Init /\ [][DelayedNext]_vars
    /\ WF_vars(DelayedReaderStep)
    /\ \A t \in Tasks : WF_vars(DelayedCallerStep(t))

(***************************************************************************)
(* Properties                                                              *)
(***************************************************************************)
Waiting(s) ==
    s \in Sent /\ calls[s].stage \in {"awaitRc", "awaitFut", "pendingFut"}

Returned(s) == s \in Sent /\ calls[s].stage = "returned"

\* C1: once every command sent has had its final reply, every caller that
\* returned holds the reply the device gave to its own command (the one whose
\* SEQUENCE is the msg_id injected into that command).
C1_SequenceCorrelation ==
    (device = {} /\ \A s \in Sent : ~Waiting(s))
        => \A s \in Sent : Returned(s) => calls[s].result.origin = s

\* C2: a caller whose immediate reply was a delay acknowledgement returns a
\* final reply, the one of its own command, and never the acknowledgement.
C2_DelayThenFinal ==
    \A s \in Sent :
        (Returned(s) /\ calls[s].delayed)
            => /\ calls[s].result.kind = "final"
               /\ calls[s].result.origin = s

\* C4: when a final reply without SEQUENCE is stored in a delayed slot (no
\* immediate-reply sender being present), the slot is the one of last_delayed,
\* which is the most recently sent command of that name, and after the step
\* the slot is in the delayed map no more and last_delayed is empty.
C4_FallbackDelivery ==
    [][\A s \in Sent :
          LET cmd == calls[s].command IN
          (/\ slots'[s].response # slots[s].response
           /\ slots'[s].response.kind = "final"
           /\ slots'[s].response.sequence = NoSeq)
              => /\ response_caches[cmd].current = NoSeq
                 /\ response_caches[cmd].last_delayed = s
                 /\ s = MostRecent(cmd)
                 /\ s \notin response_caches'[cmd].delayed
                 /\ response_caches'[cmd].last_delayed = NoSeq]_vars

\* C4 witness: a caller returned a reply without SEQUENCE through its delayed
\* slot while an older command of the same name had been sent
C4_Witness ==
    \E s \in Sent :
        /\ Returned(s)
        /\ calls[s].delayed
        /\ calls[s].result.sequence = NoSeq
        /\ \E q \in Sent : q < s /\ calls[q].command = calls[s].command

\* C5: once the socket is closed, every caller that is awaiting a reply
\* eventually returns BrokenPipe (unless its future is dropped first).
C5_BrokenPipeOnClose ==
    \A s \in 0 .. (MaxSends - 1) :
        [](  (socket = "closed" /\ Waiting(s))
             => <>(s \in Sent /\ calls[s].stage \in {"brokenpipe", "cancelled"}))

C7_CancelledSlotRemoved ==
    \A s \in Sent :
        (calls[s].stage = "cancelled" /\ s \in answered)
            => s \notin response_caches[calls[s].command].delayed

\* the model holds what a volume event says: level and mute of its entry
ReflectsField(e, tbls) ==
    (IsFieldEvent(e) /\ e.id \in DOMAIN tbls[e.tbl])
        => tbls[e.tbl][e.id] = [volume |-> e.level, mute |-> e.mute]

\* the model holds what the refresh for a coarse event enumerated
ReflectsRefresh(e, tbls) ==
    IsCoarse(e) => DOMAIN tbls[e.tbl] = evInfos

C8_AtomicReplace ==
    [][/\ \A tbl \in TableNames :
             (DOMAIN tables'[tbl] # DOMAIN tables[tbl]
                \/ (tables'[tbl] # tables[tbl] /\ evPc # "handle"))
                => /\ evPc = "swap" /\ evCur.tbl = tbl
                   /\ Readers(tbl) = 0
                   /\ DOMAIN tables'[tbl] = evInfos
                   /\ tables'[tbl] = evBuild
       /\ (evOk /\ ~evOk') => tables' = tables]_vars

\* C8 witness: a refresh that enumerated a new entry has replaced a table,
\* and a caller holds a view while the event is about to be published
C8_Witness ==
    \E tbl \in TableNames :
        /\ DOMAIN tables[tbl] = {1, 2}
        /\ evPc = "publish"
        /\ \E u \in Users : views[u] # NoView

\* C9: no event that changes a field waits while the event task is held up by
\* a view (only the table replacement itself is delayed by the view).
C9_OnlyReplacementDelayed ==
    (evPc = "swap" /\ Readers(evCur.tbl) > 0)
        => \A i \in 1 .. Len(event_recv) : ~IsFieldEvent(event_recv[i])

\* C10: the cached tables change only in a step of the event task that
\* applies an event (a field write or a table replacement).
C10_OnlyEventsChangeModel ==
    [][tables' # tables
          => /\ evPc \in {"handle", "swap"}
             /\ evPc' = "publish"
             /\ views' = views
             /\ devData' = devData]_vars

\* C10 witness: a view has set a volume on the device, no event has been
\* sent, and the cached volume is still the old one
C10_Witness ==
    \E u \in Users :
        /\ views[u] # NoView
        /\ emitted = 0
        /\ devData[views[u].tbl][views[u].id].volume = 20
        /\ tables[views[u].tbl][views[u].id].volume = 10

InFrameOrder(seq) ==
    \A i \in 1 .. (Len(seq) - 1) : seq[i] < seq[i + 1]

\* C12: the reader can always hand the next frame, event or reply, to
\* handle_response, however far behind a receiver is; publishing changes no
\* receiver; a receiver gets Lagged exactly when it is more than
\* EVENT_BROADCAST_BUFFER events behind, and then it loses the oldest events
\* and goes on with the oldest one that is kept; a reply frame is matched in
\* the step that reads it.
C12_ReaderNeverWaits ==
    /\ []((bcFrames < MaxBcFrames) => ENABLED BcReadEvent)
    /\ []((bcFrames < MaxBcFrames /\ bcReplies < MaxBcReplies)
             => ENABLED BcReadReply)
    /\ [][bcFrames' # bcFrames
             => /\ bcNext' = bcNext /\ bcGot' = bcGot
                /\ (bcReplies' # bcReplies => bcMatched' = bcMatched + 1)
                /\ (bcReplies' = bcReplies
                       => bcLog' = Append(bcLog, bcFrames'))]_vars
    /\ [][\A r \in Receivers :
             bcNext'[r] # bcNext[r]
                => IF Len(LogOf(r)) - bcNext[r] > EVENT_BROADCAST_BUFFER
                   THEN /\ bcLagged'[r]
                        /\ bcGot'[r] = bcGot[r]
                        /\ bcNext'[r] =
                              Len(LogOf(r)) - EVENT_BROADCAST_BUFFER
                   ELSE /\ bcLagged'[r] = bcLagged[r]
                        /\ bcNext'[r] = bcNext[r] + 1
                        /\ bcGot'[r] =
                              Append(bcGot[r], LogOf(r)[bcNext[r] + 1])]_vars

\* C12 witness: a reply frame was matched as the last frame while the
\* receiver, which had consumed nothing, was more than a buffer behind; the
\* receiver then got Lagged and went on with the oldest event kept
C12_Witness ==
    /\ bcFrames = MaxBcFrames
    /\ bcMatched = 1
    /\ Len(bcLog) = EVENT_BROADCAST_BUFFER + 1
    /\ bcLog[Len(bcLog)] = MaxBcFrames - 1
    /\ bcLagged["channel"]
    /\ bcGot["channel"] = <<2>>

\* C13: both broadcasts hold the events in the order in which their frames
\* were received, the user-visible one a prefix of the channel's; what a
\* receiver has got is in that order, and for a receiver that has not
\* lagged it is the broadcast's events from the first one on, none left out.
C13_PublishedInOrder ==
    /\ InFrameOrder(bcLog)
    /\ Len(ubLog) <= Len(bcLog)
    /\ ubLog = SubSeq(bcLog, 1, Len(ubLog))
    /\ \A r \in Receivers :
          /\ InFrameOrder(bcGot[r])
          /\ ~bcLagged[r]
                => /\ Len(bcGot[r]) <= Len(LogOf(r))
                   /\ bcGot[r] = SubSeq(LogOf(r), 1, Len(bcGot[r]))

\* C13 witness: a receiver of the user-visible broadcast that lagged has got
\* events since, and a receiver of the channel broadcast that did not lag
\* has got several
C13_Witness ==
    /\ bcLagged["user"]
    /\ Len(bcGot["user"]) >= 1
    /\ ~bcLagged["channel"]
    /\ Len(bcGot["channel"]) >= 2

\* the groups a player is an entry of
GroupsOf(groups, pid) ==
    {g \in DOMAIN groups : \E p \in groups[g].players : p.player_id = pid}

\* C14: every group of the table has exactly one entry with role Leader, and
\* its leader_id is that entry's player id.
C14_OneLeader ==
    \A g \in DOMAIN mockGroups :
        LET leaders == {p \in mockGroups[g].players : p.role = "leader"} IN
        /\ Cardinality(leaders) = 1
        /\ \A p \in leaders : p.player_id = mockGroups[g].leader_id

\* C14 witness: two groups exist and one of them has been modified
C14_Witness ==
    /\ Cardinality(DOMAIN mockGroups) = 2
    /\ Len(sgArgs) = MaxPids
    /\ GroupLedBy(sgBefore, sgArgs[1]) # {}
    /\ sgReply.ok

\* C15: no player is an entry of two groups of the table.
C15_AtMostOneGroup ==
    \A pid \in MockPlayers : Cardinality(GroupsOf(mockGroups, pid)) <= 1

\* C16: after a successful set_group with two or more ids, exactly one group
\* is led by the first id; its entries are the first id as Leader and every
\* other id as Member, and nothing else; it is the group the first id led
\* before, if there was one, and otherwise a new group whose id is the first
\* id; the reply carries its id and name; no other group has changed.
C16_SetGroupMembers ==
    (Len(sgArgs) >= 2 /\ sgReply.ok)
        => LET leader == sgArgs[1]
               before == GroupLedBy(sgBefore, leader)
               after  == GroupLedBy(mockGroups, leader)
           IN
           /\ Cardinality(after) = 1
           /\ \A g \in after :
                 /\ mockGroups[g].players =
                       {GroupPlayer(leader, "leader")}
                          \cup {GroupPlayer(sgArgs[i], "member") :
                                   i \in 2 .. Len(sgArgs)}
                 /\ {p.player_id : p \in mockGroups[g].players} =
                       {sgArgs[i] : i \in 1 .. Len(sgArgs)}
                 /\ IF before # {} THEN g \in before ELSE g = leader
                 /\ sgReply.gid = g
                 /\ sgReply.name = mockGroups[g].players
                 /\ DOMAIN mockGroups = (DOMAIN sgBefore) \cup {g}
                 /\ \A h \in (DOMAIN sgBefore) \ {g} :
                       mockGroups[h] = sgBefore[h]

\* C16 witness: an existing group lost a member and gained another
C16_Witness ==
    /\ Len(sgArgs) >= 2 /\ sgReply.ok
    /\ \E g \in GroupLedBy(sgBefore, sgArgs[1]) :
          /\ sgBefore[g].players \ mockGroups[g].players # {}
          /\ mockGroups[g].players \ sgBefore[g].players # {}

\* C17: set_group with one id deletes the group that id leads and leaves
\* every other group as it was; if the id leads no group the reply is the
\* invalid-id error and the table is as it was.
C17_SingleIdDeletes ==
    Len(sgArgs) = 1
        => LET led == GroupLedBy(sgBefore, sgArgs[1]) IN
           IF led # {}
           THEN /\ sgReply.ok
                /\ \E g \in led :
                      /\ DOMAIN mockGroups = (DOMAIN sgBefore) \ {g}
                      /\ \A h \in DOMAIN mockGroups :
                            mockGroups[h] = sgBefore[h]
           ELSE /\ ~sgReply.ok
                /\ sgReply.eid = InvalidIdEid
                /\ mockGroups = sgBefore

\* C17 witness: one of two groups has been deleted by a single-id set_group
C17_Witness ==
    /\ Len(sgArgs) = 1
    /\ sgReply.ok
    /\ Cardinality(DOMAIN sgBefore) = 2
    /\ Cardinality(DOMAIN mockGroups) = 1


(***************************************************************************)
(* C18.  After any queue command that changed the player (move_queue_item, *)
(* remove_from_queue, play_queue, clear_queue, play_next, add_to_queue),   *)
(* the N tracks of the queue carry the queue ids 1..N in order and the     *)
(* now-playing slot has queue id 0.                                        *)
(***************************************************************************)
C18_QueueIdsFromOne ==
    (mqOp.name # "none" /\ mqReply = "ok") =>
        /\ \A i \in 1 .. Len(mqQueue) : mqQueue[i].queue_id = i
        /\ mqNow.queue_id = 0


(***************************************************************************)
(* C19.  move_queue_item with source ids and a destination id places the   *)
(* moved tracks as one block.                                              *)
(***************************************************************************)
\* the last command was a successful move_queue_item whose destination id
\* named a track that was not moved, and that moved at least one track
MoveCase ==
    /\ mqOp.name = "move_queue_item"
    /\ mqReply = "ok"
    /\ \A i \in 1 .. Len(mqOp.ids) : mqOp.ids[i] # mqOp.dst
    /\ \E i \in 1 .. Len(mqBefore) : mqBefore[i].queue_id = mqOp.dst
    /\ \E i \in 1 .. Len(mqBefore), j \in 1 .. Len(mqOp.ids) :
          mqBefore[i].queue_id = mqOp.ids[j]

\* the position the destination id named in the queue before the move
DstPos == CHOOSE i \in 1 .. Len(mqBefore) : mqBefore[i].queue_id = mqOp.dst

\* the positions of the tracks the move named as sources
SrcPos ==
    {i \in 1 .. Len(mqBefore) :
        \E j \in 1 .. Len(mqOp.ids) : mqBefore[i].queue_id = mqOp.ids[j]}

\* the queue now is the queue before with the source tracks taken out, kept
\* in order, and put in as one block that starts at position b and is
\* followed by the track the destination id named
MovedBlockAt(b) ==
    LET IsSrc(e) == \E j \in 1 .. Len(mqOp.ids) : e.queue_id = mqOp.ids[j]
        IsKept(e) == ~IsSrc(e)
        moved == SelectSeq(mqBefore, IsSrc)
        kept == SelectSeq(mqBefore, IsKept)
        k == Len(moved)
        Medias(q) == [i \in 1 .. Len(q) |-> q[i].media]
    IN  /\ Len(mqQueue) = Len(mqBefore)
        /\ b >= 1
        /\ b + k <= Len(mqQueue)
        /\ Medias(SubSeq(mqQueue, b, b + k - 1)) = Medias(moved)
        /\ mqQueue[b + k].media = mqBefore[DstPos].media
        /\ Medias(SubSeq(mqQueue, 1, b - 1)
                  \o SubSeq(mqQueue, b + k, Len(mqQueue))) = Medias(kept)

MediaIds(queue) == [i \in 1 .. Len(queue) |-> queue[i].media]

C20_AddToQueueByType ==
    mqOp.name = "add_to_queue" =>
        LET aid == mqOp.track[1]
            track == mqOp.track[2]
        IN  /\ mqReply = "ok"
            /\ aid = "PlayNow" =>
                  /\ mqNow.media = track
                  /\ MediaIds(mqQueue) = MediaIds(mqBefore)
            /\ aid = "PlayNext" =>
                  /\ mqNow = mqNowBefore
                  /\ MediaIds(mqQueue) = <<track>> \o MediaIds(mqBefore)
            /\ aid = "AddToEnd" =>
                  /\ mqNow = mqNowBefore
                  /\ MediaIds(mqQueue) = MediaIds(mqBefore) \o <<track>>
            /\ aid = "ReplaceAndPlay" =>
                  /\ mqNow.media = track
                  /\ mqQueue = <<>>

\* a PlayNext on a queue that held other tracks, after a PlayNow had put the
\* track into the now-playing slot of a player with tracks in its queue
C20_Witness ==
    /\ mqOp.name = "add_to_queue"
    /\ mqOp.track[1] = "PlayNext"
    /\ mqBefore # <<>>
    /\ mqBefore[1].media # mqOp.track[2]
    /\ mqNow.media = mqOp.track[2]


(***************************************************************************)
(* C21.  remove_from_queue with a list of queue ids removes exactly the    *)
(* tracks whose queue_id is in the list and no other track, whatever       *)
(* numbering the queue holds; play_queue with a queue id selects the track *)
(* that carries that queue_id (it becomes the head of what is played).     *)
(***************************************************************************)
C21_ByQueueId ==
    /\ (mqOp.name = "remove_from_queue" /\ mqReply = "ok") =>
          LET Named(e) == \E j \in 1 .. Len(mqOp.ids) : e.queue_id = mqOp.ids[j]
              Other(e) == ~Named(e)
          IN  MediaIds(mqQueue) = MediaIds(SelectSeq(mqBefore, Other))
    /\ (mqOp.name = "play_queue" /\ mqReply = "ok") =>
          /\ mqQueue # <<>>
          /\ \E i \in 1 .. Len(mqBefore) :
                /\ mqBefore[i].queue_id = mqOp.ids[1]
                /\ mqQueue[1].media = mqBefore[i].media


(***************************************************************************)
(* C22.  A successful volume_up (volume_down) on a player or group raises  *)
(* (lowers) its volume by the given step, or by 5 when the step is         *)
(* omitted, saturating at 100 (at 0): a following get_volume returns the   *)
(* changed level.                                                          *)
(***************************************************************************)
C22_StepChangesLevel ==
    (/\ mvOp.name \in {"volume_up", "volume_down"}
     /\ mvOp.reply = "ok"
     /\ mvGot # <<>>
     /\ mvGot[1] = mvOp.target) =>
        LET step == IF mvOp.arg = <<>> THEN 5 ELSE mvOp.arg[1]
            up == IF mvOp.before + step > 100 THEN 100
                  ELSE mvOp.before + step
            down == IF mvOp.before - step < 0 THEN 0
                    ELSE mvOp.before - step
        IN  mvGot[2] = IF mvOp.name = "volume_up" THEN up ELSE down

(***************************************************************************)
(* C23.  Constructing Volume(n) succeeds iff 0 <= n <= 100 and             *)
(* VolumeStep(n) iff 0 <= n <= 10, failing otherwise with an out-of-bounds *)
(* error that carries n; saturating_add and saturating_sub on a valid      *)
(* value return a value within the same bounds.                            *)
(***************************************************************************)
C23_BoundsEnforced ==
    LET max == IF bnOp.type = "Volume" THEN 100 ELSE 10 IN
    /\ (bnOp.name \in {"new", "from_str", "deserialize"}
        /\ bnOp.arg \in 0 .. U16Max) =>
          /\ bnValue.ok <=> bnOp.arg <= max
          /\ ~bnValue.ok =>
                bnValue.kind = "OutOfBounds" /\ bnValue.value = bnOp.arg
    /\ (bnOp.name \in {"saturating_add", "saturating_sub"}
        /\ bnOp.from.value <= max) =>
          bnValue.ok /\ bnValue.value \in 0 .. max



(***************************************************************************)
(* C24.  In every reachable state of a player's model, after any sequence  *)
(* of progress, now-playing and play-state events, interpolated_elapsed()  *)
(* is at most the stored duration.                                         *)
(***************************************************************************)
C24_ElapsedWithinDuration == InterpolatedNow <= npDuration

(***************************************************************************)
(* C25.  When a player_state_changed event sets the play state to Pause or *)
(* Stop, the baseline is cleared and the stored elapsed is frozen to the   *)
(* last interpolated value: interpolated_elapsed() returns the same value  *)
(* at every later time until another event for the player is applied.      *)
(***************************************************************************)
C25_FrozenWhilePaused ==
    [][/\ (clock' = clock /\ npLast'[1] = "player_state_changed"
           /\ npPlayState' \in {"Pause", "Stop"}) =>
             /\ npBaseline' = NoBaseline
             /\ npElapsed' = InterpolatedNow
       /\ (clock' # clock /\ npLast[1] = "player_state_changed"
           /\ npPlayState \in {"Pause", "Stop"}) =>
             InterpolatedNow' = InterpolatedNow]_vars

\* a track that was playing is paused part way, and time has passed since
C25_Witness ==
    /\ npLast[1] = "player_state_changed"
    /\ npPlayState = "Pause"
    /\ npLast[2] < clock
    /\ 0 < npElapsed
    /\ npElapsed < npDuration


(***************************************************************************)
(* C26.  State::playables yields every group of the groups table exactly   *)
(* once and every player that belongs to no group exactly once, and never  *)
(* yields a player that is a member of a group, for every content of the   *)
(* players and groups tables.                                              *)
(***************************************************************************)
C26_PlayablesComplete ==
    plPhase = "done" =>
        LET Count(item) ==
                Cardinality({k \in 1 .. Len(plOut) : plOut[k] = item})
            Grouped(p) ==
                \E i \in 1 .. Len(plGroups) : p \in plGroups[i].players
        IN  /\ \A i \in 1 .. Len(plGroups) :
                  Count(<<"group", plGroups[i].group_id>>) = 1
            /\ \A p \in plPlayers :
                  Count(<<"player", p>>) = IF Grouped(p) THEN 0 ELSE 1


(***************************************************************************)
(* C27.  An inbound event frame that fails to parse (unknown event path    *)
(* or bad query string) is dropped without being fatal: no reply slot and  *)
(* no caller is affected, nothing is published for it, the socket stays    *)
(* open, and every later well-formed event is still published.             *)
(***************************************************************************)
C27_BadEventDropped ==
    [][rdLog' # rdLog =>
          LET f == EventFrame(rdLog'[Len(rdLog')]) IN
          /\ UNCHANGED <<response_caches, oneshot, slots, woken, mutex, pc,
                         cur, calls, socket>>
          /\ event_broadcast' =
                IF EventParses(f) THEN Append(event_broadcast, f.command)
                ELSE event_broadcast]_vars

\* a frame that does not parse was dropped while a caller waited for its
\* reply, and the well-formed event read after it was published
C27_Witness ==
    /\ rdLog = <<"event/bogus", "event/player_volume_changed">>
    /\ event_broadcast = <<"event/player_volume_changed">>
    /\ \E s \in Sent : Waiting(s)


(***************************************************************************)
(* C28.  For every raw command, rendering it to its textual form           *)
(* heos://group/name?k=v&... and parsing that text back into parameters    *)
(* yields the same parameter map (modulo key order), for every parameter   *)
(* value the typed commands can carry.                                     *)
(***************************************************************************)
C28_RoundTrip == rcPhase = "parsed" => rcParsed = rcParams



\* C29: events that arrive while a refresh is in flight queue at most one
\* refresh, and after the refresh in flight completes exactly one further
\* refresh is launched for them: between two events that an entry's
\* predicate accepts, check_queued launches at most one refresh for it
C29_OneRefreshPerBurst ==
    \A e \in UpdateEntries : udLaunched[e] <= 1


\* C30: the SEQUENCE numbers of a channel start at 0 and rise by one with
\* every command sent: the numbers handed out so far are exactly those
\* below next_msg_id; a command newly registered carries next_msg_id, which
\* no earlier command carries, and the counter moves up by one; no other
\* step, a failed write and a cancelled call included, moves the counter;
\* a command written to the socket carries a larger number than every
\* command written before it
C30_SequenceIncreasing ==
    [][/\ DOMAIN calls = 0 .. (next_msg_id - 1)
       /\ IF DOMAIN calls' # DOMAIN calls
          THEN /\ DOMAIN calls' = DOMAIN calls \cup {next_msg_id}
               /\ next_msg_id \notin DOMAIN calls
               /\ \A s \in DOMAIN calls : s < next_msg_id
               /\ next_msg_id' = next_msg_id + 1
          ELSE next_msg_id' = next_msg_id
       /\ \A s \in device' \ device :
             /\ s \in DOMAIN calls
             /\ \A q \in DOMAIN calls :
                   calls[q].stage \notin {"write", "ioerror"} => q <= s]_vars

\* a first command written and then cancelled by its caller, the socket
\* closed, and a second command whose write failed
C30_Witness ==
    /\ next_msg_id = 2
    /\ calls[0].stage = "cancelled"
    /\ calls[1].stage = "ioerror"


\* C31: a caller never returns a reply that carries the SEQUENCE of another
\* command: whenever a caller has returned a frame with a SEQUENCE, that
\* SEQUENCE is the msg_id its own command was sent with
C31_NoForeignReply ==
    \A s \in Sent :
        (Returned(s) /\ calls[s].result.sequence # NoSeq)
            => calls[s].result.sequence = s


\* C32: an iterator that is alive holds a read guard on its table, and no
\* call of its get or next is refused a further read guard: the caller's
\* task never panics in get, whatever the refresh of the table is doing
C32_IteratorReadsFreely ==
    /\ itPhase = "alive" => ReadGuards >= 1
    /\ itPhase # "panicked"


\* C33: the event task of a Stateful connection survives falling behind the
\* channel broadcast: once it has lost events it is still receiving or
\* publishing, never ended
C33_TaskSurvivesLag ==
    bcLagged["task"] => bcTask \in {"recv", "publish"}


\* C34: a command whose write failed leaves nothing in the response cache of
\* its name: it is not the immediate-reply sender, it has no delayed slot
\* and last_delayed does not name it; and when no caller is inside
\* send_raw_command every delayed map is empty
C34_FailedWriteLeavesNothing ==
    /\ \A s \in Sent :
          calls[s].stage = "ioerror" =>
              LET cache == response_caches[calls[s].command] IN
              /\ cache.current # s
              /\ s \notin cache.delayed
              /\ cache.last_delayed # s
    /\ ((\E s \in Sent : calls[s].stage = "ioerror")
        /\ \A t \in Tasks : pc[t] # "busy")
          => \A cmd \in CmdNames : response_caches[cmd].delayed = {}


\* C35: after a delay acknowledgement a final reply stored in the caller's
\* delayed slot completes the caller, whether it is stored before the first
\* poll of the slot or after it: from every state in which the reply is in
\* the slot and the caller awaits the slot, the caller returns (or drops its
\* future)
C35_StoredReplyCompletes ==
    \A s \in 0 .. (MaxSends - 1) :
        []((/\ s \in Sent
            /\ calls[s].stage \in {"awaitFut", "pendingFut"}
            /\ slots[s].response # NoFrame)
           => <>(s \in Sent /\ calls[s].stage \in {"returned", "cancelled"}))

\* the reply was stored after the caller had polled the empty slot and left
\* its waker there
C35_Witness ==
    \E s \in Sent :
        /\ calls[s].stage = "pendingFut"
        /\ slots[s].response # NoFrame
        /\ s \in woken


\* C36: every volume held in the stateful model is within 0 ..= 100,
\* whatever levels replies and volume events carry
C36_ModelVolumeInBounds ==
    \A h \in VolumeHolders : smVolume[h] \in 0 .. VolumeMax


\* C37: the progress of a player has a baseline only while the cached play
\* state is Play
C37_BaselineOnlyWhilePlaying ==
    npBaseline # NoBaseline => npPlayState = "Play"

\* a playing player got a new track, which set the baseline, and time has
\* passed since
C37_Witness ==
    /\ npPlayState = "Play"
    /\ npLast[1] = "player_now_playing_changed"
    /\ npBaseline # NoBaseline
    /\ clock > npBaseline


\* C38: the mock answers every command with a response, success or fail,
\* and its handler never panics
C38_MockAlwaysAnswers ==
    mqOp.name # "none" => mqReply \in {"ok", "error"}


\* C39: a search whose every command is answered returns: from the call on,
\* the loop is eventually left
C39_SearchReturns ==
    (srPhase = "loop") ~> (srPhase \in {"returned", "failed"})

=============================================================================
